---- MODULE Spec2Model ----
(***************************************************************************)
(* Model of the rule-evaluation and scoring engine of the nCino analyzer:  *)
(* NamingConventionAnalyzer (src/src/models/NamingConventionAnalyzer.js)   *)
(* and BypassPatternAnalyzer (src/unnamed/part_002).                       *)
(*                                                                         *)
(* JavaScript strings that the code inspects (test, includes, startsWith,  *)
(* slice, ...) are sequences of one-character strings; strings that are    *)
(* only passed through are TLA+ strings.  JavaScript numbers are records   *)
(* [nan, val] so that NaN is a value of its own.                           *)
(***************************************************************************)
EXTENDS Integers, Sequences, FiniteSets, TLC

VARIABLES input, result

vars == <<input, result>>

---------------------------------------------------------------------------
(* Bounds *)

\* longest input array handed to an analyzer
MaxLen == 2

\* arrays of repeated records hold 0, 1, MaxCopies - 1, MaxCopies or ManyCopies
\* copies of a record
MaxCopies == 6
ManyCopies == 15

---------------------------------------------------------------------------
(* JavaScript strings *)

LowerLetters == <<"a","b","c","d","e","f","g","h","i","j","k","l","m","n","o","p","q","r","s","t","u","v","w","x","y","z">>
UpperLetters == <<"A","B","C","D","E","F","G","H","I","J","K","L","M","N","O","P","Q","R","S","T","U","V","W","X","Y","Z">>
Digits == <<"0","1","2","3","4","5","6","7","8","9">>

Range(s) == {s[k] : k \in DOMAIN s}

\* String.prototype.toUpperCase / toLowerCase on one character
ToUpperChar(c) ==
  IF c \in Range(LowerLetters)
  THEN UpperLetters[CHOOSE k \in DOMAIN LowerLetters : LowerLetters[k] = c]
  ELSE c

ToLowerChar(c) ==
  IF c \in Range(UpperLetters)
  THEN LowerLetters[CHOOSE k \in DOMAIN UpperLetters : UpperLetters[k] = c]
  ELSE c

toUpperCase(s) == [k \in DOMAIN s |-> ToUpperChar(s[k])]

toLowerCase(s) == [k \in DOMAIN s |-> ToLowerChar(s[k])]

\* s.slice(n) for 0 <= n
slice(s, n) == IF n >= Len(s) THEN <<>> ELSE SubSeq(s, n + 1, Len(s))

\* s.charAt(0): the empty string when s is empty
charAt0(s) == IF Len(s) = 0 THEN <<>> ELSE <<s[1]>>

\* sub occurs in s at position i (1-based)
OccursAt(s, sub, i) ==
  /\ i >= 1
  /\ i + Len(sub) - 1 <= Len(s)
  /\ \A k \in DOMAIN sub : s[i + k - 1] = sub[k]

startsWith(s, sub) == OccursAt(s, sub, 1)

endsWith(s, sub) == OccursAt(s, sub, Len(s) - Len(sub) + 1)

includes(s, sub) == \E i \in 1..(Len(s) + 1) : OccursAt(s, sub, i)

\* s.replace(sub, by) with a string pattern: the first occurrence only
replace(s, sub, by) ==
  IF ~includes(s, sub) THEN s
  ELSE LET i == CHOOSE p \in 1..(Len(s) + 1) :
                  /\ OccursAt(s, sub, p)
                  /\ \A q \in 1..(p - 1) : ~OccursAt(s, sub, q)
       IN SubSeq(s, 1, i - 1) \o by \o slice(s, i + Len(sub) - 1)

\* a || b || '' on the string properties k1, k2 of a record
\* (an absent property is undefined, the empty string is falsy)
StrProp2(rec, k1, k2) ==
  IF k1 \in DOMAIN rec /\ rec[k1] # <<>> THEN rec[k1]
  ELSE IF k2 \in DOMAIN rec /\ rec[k2] # <<>> THEN rec[k2]
  ELSE <<>>

\* rec.k || ''
StrProp(rec, k) == IF k \in DOMAIN rec /\ rec[k] # <<>> THEN rec[k] ELSE <<>>

\* rec.k || false
BoolProp(rec, k) == IF k \in DOMAIN rec THEN rec[k] ELSE FALSE

---------------------------------------------------------------------------
(* Regular expressions: the subset of ECMAScript the catalogs use *)

Unbounded == 0 - 1

Node(op, set, args, lo, hi) ==
  [op |-> op, set |-> set, args |-> args, lo |-> lo, hi |-> hi]

\* [...] and [^...]
Class(set) == Node("class", set, <<>>, 0, 0)
NotClass(set) == Node("notclass", set, <<>>, 0, 0)
\* concatenation, alternation
Cat(args) == Node("cat", {}, args, 0, 0)
Alt(args) == Node("alt", {}, args, 0, 0)
\* r{lo,hi}, r*, r+
Rep(r, lo, hi) == Node("rep", {}, <<r>>, lo, hi)
Star(r) == Rep(r, 0, Unbounded)
Plus(r) == Rep(r, 1, Unbounded)
\* ^ and $ (no m flag)
Bol == Node("bol", {}, <<>>, 0, 0)
Eol == Node("eol", {}, <<>>, 0, 0)
\* a literal run of characters, and the same under the i flag
Lit(str) == Node("lit", {}, str, 0, 0)
LitI(str) == Node("liti", {}, str, 0, 0)
\* \s and . (line terminators: only those of the modelled alphabet)
Space == Class({" ", "\t", "\n", "\r"})
Dot == NotClass({"\n", "\r"})
\* [a-z], [A-Za-z0-9], [A-Za-z0-9_]
AlphaNum == Range(LowerLetters) \cup Range(UpperLetters) \cup Range(Digits)
Word == AlphaNum \cup {"_"}

RECURSIVE Ends(_, _, _)
\* the positions j such that re matches s from position i up to j - 1
Ends(re, s, i) ==
  CASE re.op = "class" ->
         IF i <= Len(s) /\ s[i] \in re.set THEN {i + 1} ELSE {}
    [] re.op = "notclass" ->
         IF i <= Len(s) /\ s[i] \notin re.set THEN {i + 1} ELSE {}
    [] re.op = "lit" ->
         IF OccursAt(s, re.args, i) THEN {i + Len(re.args)} ELSE {}
    [] re.op = "liti" ->
         IF /\ i + Len(re.args) - 1 <= Len(s)
            /\ \A k \in DOMAIN re.args :
                 ToLowerChar(s[i + k - 1]) = ToLowerChar(re.args[k])
         THEN {i + Len(re.args)} ELSE {}
    [] re.op = "bol" -> IF i = 1 THEN {i} ELSE {}
    [] re.op = "eol" -> IF i = Len(s) + 1 THEN {i} ELSE {}
    [] re.op = "alt" -> UNION {Ends(re.args[k], s, i) : k \in DOMAIN re.args}
    [] re.op = "cat" ->
         IF Len(re.args) = 0 THEN {i}
         ELSE UNION {Ends(Cat(Tail(re.args)), s, j) : j \in Ends(Head(re.args), s, i)}
    [] re.op = "rep" ->
         (IF re.lo = 0 THEN {i} ELSE {})
         \cup
         (IF re.hi = 0 THEN {}
          ELSE LET lo1 == IF re.lo = 0 THEN 0 ELSE re.lo - 1
                   hi1 == IF re.hi = Unbounded THEN Unbounded ELSE re.hi - 1
               IN UNION {Ends(Rep(re.args[1], lo1, hi1), s, j) :
                           j \in Ends(re.args[1], s, i) \ {i}})

\* RegExp.prototype.test without the g or y flag: a match anywhere in s
test(re, s) == \E i \in 1..(Len(s) + 1) : Ends(re, s, i) # {}

---------------------------------------------------------------------------
(* JavaScript numbers *)

Num(v) == [nan |-> FALSE, val |-> v]
NaN == [nan |-> TRUE, val |-> 0]

\* a <= b on numbers: every comparison with NaN is false
NumLeq(a, b) == ~a.nan /\ ~b.nan /\ a.val <= b.val

\* a < b on numbers
NumLt(a, b) == ~a.nan /\ ~b.nan /\ a.val < b.val

\* Math.round((part / total) * 100) for 0 <= part <= total; 0 / 0 is NaN.
\* Math.round rounds half up: floor(x + 0.5).
RoundedPercentage(part, total) ==
  IF total = 0 THEN NaN ELSE Num((200 * part + total) \div (2 * total))

---------------------------------------------------------------------------
(* NamingConventionAnalyzer *)

conventionRules ==
  << [ pattern |-> Cat(<<Bol, Lit(<<"L","L","C","_","B","I","_","_">>)>>),
       source |-> <<"/","^","L","L","C","_","B","I","_","_","/">>,
       description |-> <<"M","a","n","a","g","e","d"," ","p","a","c","k","a","g","e"," ","f","i","e","l","d","s"," ","f","r","o","m"," ","n","C","i","n","o">>,
       expected |-> TRUE ],
     [ pattern |-> Cat(<<Bol, Lit(<<"n","c","_">>)>>),
       source |-> <<"/","^","n","c","_","/">>,
       description |-> <<"C","u","s","t","o","m"," ","p","r","o","j","e","c","t","-","s","p","e","c","i","f","i","c"," ","f","i","e","l","d","s">>,
       expected |-> TRUE ],
     [ pattern |-> Cat(<<Bol, Class(Range(LowerLetters))>>),
       source |-> <<"/","^","[","a","-","z","]","/">>,
       description |-> <<"F","i","e","l","d","s"," ","s","h","o","u","l","d"," ","n","o","t"," ","s","t","a","r","t"," ","w","i","t","h"," ","l","o","w","e","r","c","a","s","e"," ","l","e","t","t","e","r","s">>,
       expected |-> FALSE ] >>

loanObjectConventions ==
  [ standardPatterns |->
      << Cat(<<Bol, Lit(<<"L","L","C","_","B","I","_","_","L","o","a","n","_","_","c">>), Eol>>),
         Cat(<<Bol, Lit(<<"L","L","C","_","B","I","_","_">>), Star(Dot), Lit(<<"_","_","c">>), Eol>>) >>,
    customPatterns |->
      << Cat(<<Bol, Lit(<<"n","c","_","L","o","a","n","_">>), Star(Dot), Lit(<<"_","_","c">>), Eol>>),
         Cat(<<Bol, Lit(<<"n","c","_">>), Star(Dot), Lit(<<"_","_","c">>), Eol>>) >>,
    invalidPatterns |->
      << Cat(<<Bol, Lit(<<"L","o","a","n","_">>)>>),
         Cat(<<Bol, Lit(<<"l","o","a","n","_">>)>>),
         Cat(<<Lit(<<"_","_","X">>), Eol>>) >> ]

\* patterns.some(pattern => pattern.test(apiName))
SomeTest(patterns, s) == \E k \in DOMAIN patterns : test(patterns[k], s)

LoanPatternRule == <<"L","o","a","n","-","r","e","l","a","t","e","d"," ","f","i","e","l","d","s"," ","m","u","s","t"," ","f","o","l","l","o","w"," ","s","t","a","n","d","a","r","d"," ","o","r"," ","c","u","s","t","o","m"," ","p","a","t","t","e","r","n","s">>
InvalidPatternRule == <<"F","i","e","l","d"," ","u","s","e","s"," ","a","n"," ","i","n","v","a","l","i","d"," ","n","a","m","i","n","g"," ","p","a","t","t","e","r","n">>

\* ConventionViolations that stops at the first violated rule
ConventionViolations_FirstOnly(apiName) ==
  LET violated(rule) ==
        LET matches == test(rule.pattern, apiName)
        IN (rule.expected /\ ~matches) \/ (~rule.expected /\ matches)
      hit == SelectSeq(conventionRules, violated)
  IN IF Len(hit) = 0 THEN <<>>
     ELSE <<[rule |-> hit[1].description, pattern |-> hit[1].source,
             expected |-> hit[1].expected]>>

\* the convention rules a name violates, in catalog order
ConventionViolations(apiName) ==
  LET violated(rule) ==
        LET matches == test(rule.pattern, apiName)
        IN (rule.expected /\ ~matches) \/ (~rule.expected /\ matches)
      hit == SelectSeq(conventionRules, violated)
  IN [k \in DOMAIN hit |->
        [rule |-> hit[k].description, pattern |-> hit[k].source,
         expected |-> hit[k].expected]]

\* LoanViolations with the invalid-pattern test in an else branch: it is
\* consulted only when the standard/custom violation was not recorded
LoanViolations_ElseIf(apiName) ==
  IF includes(apiName, <<"L","o","a","n">>) \/ includes(apiName, <<"l","o","a","n">>)
  THEN LET isStandard == SomeTest(loanObjectConventions.standardPatterns, apiName)
           isCustom == SomeTest(loanObjectConventions.customPatterns, apiName)
           hasInvalidPattern == SomeTest(loanObjectConventions.invalidPatterns, apiName)
       IN IF ~isStandard /\ ~isCustom /\ includes(apiName, <<"L","o","a","n">>)
          THEN <<[rule |-> LoanPatternRule, severity |-> "critical"]>>
          ELSE IF hasInvalidPattern
          THEN <<[rule |-> InvalidPatternRule, severity |-> "critical"]>>
          ELSE <<>>
  ELSE <<>>

\* LoanViolations without the custom-pattern test: isCustom is never consulted
LoanViolations_IgnoresCustom(apiName) ==
  IF includes(apiName, <<"L","o","a","n">>) \/ includes(apiName, <<"l","o","a","n">>)
  THEN LET isStandard == SomeTest(loanObjectConventions.standardPatterns, apiName)
           hasInvalidPattern == SomeTest(loanObjectConventions.invalidPatterns, apiName)
       IN (IF ~isStandard /\ includes(apiName, <<"L","o","a","n">>)
           THEN <<[rule |-> LoanPatternRule, severity |-> "critical"]>>
           ELSE <<>>)
          \o
          (IF hasInvalidPattern
           THEN <<[rule |-> InvalidPatternRule, severity |-> "critical"]>>
           ELSE <<>>)
  ELSE <<>>

\* the Loan object specific violations of a name
LoanViolations(apiName) ==
  IF includes(apiName, <<"L","o","a","n">>) \/ includes(apiName, <<"l","o","a","n">>)
  THEN LET isStandard == SomeTest(loanObjectConventions.standardPatterns, apiName)
           isCustom == SomeTest(loanObjectConventions.customPatterns, apiName)
           hasInvalidPattern == SomeTest(loanObjectConventions.invalidPatterns, apiName)
       IN (IF ~isStandard /\ ~isCustom /\ includes(apiName, <<"L","o","a","n">>)
           THEN <<[rule |-> LoanPatternRule, severity |-> "critical"]>>
           ELSE <<>>)
          \o
          (IF hasInvalidPattern
           THEN <<[rule |-> InvalidPatternRule, severity |-> "critical"]>>
           ELSE <<>>)
  ELSE <<>>

\* violations.some(v => v.rule.includes(text))
SomeRuleIncludes(violations, text) ==
  \E k \in DOMAIN violations : includes(violations[k].rule, text)

determineSeverity(violations) ==
  IF \E k \in DOMAIN violations :
       "severity" \in DOMAIN violations[k] /\ violations[k].severity = "critical"
  THEN "critical"
  ELSE IF SomeRuleIncludes(violations, <<"L","o","a","n">>)
          \/ SomeRuleIncludes(violations, <<"s","t","a","n","d","a","r","d"," ","p","a","t","t","e","r","n","s">>)
  THEN "critical"
  ELSE IF SomeRuleIncludes(violations, <<"c","u","s","t","o","m"," ","p","r","o","j","e","c","t","-","s","p","e","c","i","f","i","c">>)
  THEN "medium"
  ELSE "low"

FallbackRecommendation == <<"R","e","v","i","e","w"," ","f","i","e","l","d"," ","n","a","m","i","n","g"," ","a","n","d"," ","a","p","p","l","y"," ","a","p","p","r","o","p","r","i","a","t","e"," ","c","o","n","v","e","n","t","i","o","n">>

generateRecommendation(apiName, violations) ==
  LET recommendation ==
        IF SomeRuleIncludes(violations, <<"l","o","w","e","r","c","a","s","e">>)
        THEN LET firstChar == charAt0(apiName)
             IN <<"C","h","a","n","g","e"," ","f","i","r","s","t"," ","c","h","a","r","a","c","t","e","r"," ","'">> \o firstChar
                \o <<"'"," ","t","o"," ","u","p","p","e","r","c","a","s","e",":"," ","'">>
                \o toUpperCase(firstChar) \o slice(apiName, 1) \o <<"'">>
        ELSE IF SomeRuleIncludes(violations, <<"M","a","n","a","g","e","d"," ","p","a","c","k","a","g","e">>)
                \/ SomeRuleIncludes(violations, <<"C","u","s","t","o","m"," ","p","r","o","j","e","c","t","-","s","p","e","c","i","f","i","c">>)
        THEN IF includes(apiName, <<"L","o","a","n">>)
                /\ ~startsWith(apiName, <<"L","L","C","_","B","I","_","_">>)
                /\ ~startsWith(apiName, <<"n","c","_">>)
             THEN <<"A","d","d"," ","'","n","c","_","'"," ","p","r","e","f","i","x",":"," ","'","n","c","_">> \o apiName \o <<"'">>
             ELSE <<"A","d","d"," ","a","p","p","r","o","p","r","i","a","t","e"," ","p","r","e","f","i","x"," ","(","'","L","L","C","_","B","I","_","_","'"," ","f","o","r"," ","m","a","n","a","g","e","d"," ","p","a","c","k","a","g","e"," ","f","i","e","l","d","s"," ","o","r"," ","'","n","c","_","'"," ","f","o","r"," ","c","u","s","t","o","m"," ","f","i","e","l","d","s",")">>
        ELSE IF SomeRuleIncludes(violations, <<"i","n","v","a","l","i","d">>)
        THEN IF endsWith(apiName, <<"_","_","X">>)
             THEN <<"R","e","m","o","v","e"," ","'","_","_","X","'"," ","s","u","f","f","i","x",":"," ","'">>
                  \o replace(apiName, <<"_","_","X">>, <<"_","_","c">>) \o <<"'">>
             ELSE IF startsWith(apiName, <<"l","o","a","n","_">>)
             THEN <<"C","h","a","n","g","e"," ","t","o"," ","'","n","c","_","L","o","a","n","_">> \o slice(apiName, 5) \o <<"'">>
             ELSE <<"R","e","n","a","m","e"," ","t","o"," ","f","o","l","l","o","w"," ","s","t","a","n","d","a","r","d"," ","p","a","t","t","e","r","n"," ","(","L","L","C","_","B","I","_","_","*","_","_","c",")"," ","o","r"," ","c","u","s","t","o","m"," ","p","a","t","t","e","r","n"," ","(","n","c","_","*","_","_","c",")">>
        ELSE <<>>
  IN IF recommendation # <<>> THEN recommendation ELSE FallbackRecommendation

\* AnalyzeField with the compliant counter incremented outside the else branch
AnalyzeField_CountsEveryField(results, field) ==
  LET apiName == StrProp2(field, "apiName", "fullName")
      violations == ConventionViolations(apiName) \o LoanViolations(apiName)
      counted == [results EXCEPT !.compliantFieldCount = @ + 1]
  IN IF Len(violations) > 0
     THEN LET fieldViolation ==
                [apiName |-> apiName,
                 label |-> StrProp(field, "label"),
                 type |-> StrProp(field, "type"),
                 violations |-> violations,
                 recommendedFix |-> generateRecommendation(apiName, violations)]
              severity == determineSeverity(violations)
          IN [counted EXCEPT
                !.bySeverity[severity] = Append(@, fieldViolation),
                !.violations = Append(@, fieldViolation)]
     ELSE counted

\* the body of fields.forEach: one field folded into the results
AnalyzeField(results, field) ==
  LET apiName == StrProp2(field, "apiName", "fullName")
      violations == ConventionViolations(apiName) \o LoanViolations(apiName)
  IN IF Len(violations) > 0
     THEN LET fieldViolation ==
                [apiName |-> apiName,
                 label |-> StrProp(field, "label"),
                 type |-> StrProp(field, "type"),
                 violations |-> violations,
                 recommendedFix |-> generateRecommendation(apiName, violations)]
              severity == determineSeverity(violations)
          IN [results EXCEPT
                !.bySeverity[severity] = Append(@, fieldViolation),
                !.violations = Append(@, fieldViolation)]
     ELSE [results EXCEPT !.compliantFieldCount = @ + 1]

RECURSIVE FoldFields(_, _, _)
FoldFields(results, fields, k) ==
  IF k > Len(fields) THEN results
  ELSE FoldFields(AnalyzeField(results, fields[k]), fields, k + 1)

\* !v: undefined, null, 0 and '' are falsy
Falsy(v) ==
  \/ v.tag \in {"undefined", "null"}
  \/ v.tag = "number" /\ v.num = 0
  \/ v.tag = "string" /\ v.str = <<>>

isArray(v) == v.tag = "array"

Thrown(call, message) == [call |-> call, threw |-> TRUE, error |-> message]
Returned(call, value) == [call |-> call, threw |-> FALSE, value |-> value]

\* analyzeFields that treats anything that is not an array as an empty array
analyzeFields_Lenient(fields) ==
  LET items == IF isArray(fields) THEN fields.items ELSE <<>>
      results0 ==
        [violations |-> <<>>,
         compliantFieldCount |-> 0,
         totalFieldCount |-> Len(items),
         bySeverity |-> [critical |-> <<>>, medium |-> <<>>, low |-> <<>>]]
      results == FoldFields(results0, items, 1)
  IN Returned("analyzeFields",
       [violations |-> results.violations,
        compliantFieldCount |-> results.compliantFieldCount,
        totalFieldCount |-> results.totalFieldCount,
        bySeverity |-> results.bySeverity,
        compliancePercentage |->
          RoundedPercentage(results.compliantFieldCount, results.totalFieldCount)])

\* the outcome of analyzeFields(fields)
analyzeFields(fields) ==
  IF Falsy(fields) \/ ~isArray(fields)
  THEN Thrown("analyzeFields", "Field data must be provided as an array")
  ELSE LET results0 ==
             [violations |-> <<>>,
              compliantFieldCount |-> 0,
              totalFieldCount |-> Len(fields.items),
              bySeverity |-> [critical |-> <<>>, medium |-> <<>>, low |-> <<>>]]
           results == FoldFields(results0, fields.items, 1)
       IN Returned("analyzeFields",
            [violations |-> results.violations,
             compliantFieldCount |-> results.compliantFieldCount,
             totalFieldCount |-> results.totalFieldCount,
             bySeverity |-> results.bySeverity,
             compliancePercentage |->
               RoundedPercentage(results.compliantFieldCount, results.totalFieldCount)])

---------------------------------------------------------------------------
(* BypassPatternAnalyzer *)

\* =[=!]= : an equals sign, then = or !, then an equals sign
EqOp == Cat(<<Lit(<<"=">>), Class({"=", "!"}), Lit(<<"=">>)>>)

Quote == Class({"'", "\""})

validationRulePatterns ==
  << [ name |-> "Profile-based bypass",
       regex |-> Alt(<< Cat(<<Lit(<<"$","P","r","o","f","i","l","e",".","N","a","m","e">>), Star(Space), EqOp>>),
                        Lit(<<"C","O","N","T","A","I","N","S","(","$","P","r","o","f","i","l","e",".","N","a","m","e">>) >>),
       severity |-> "Medium",
       description |-> "Using Profile.Name to bypass validation rules creates maintenance challenges when profiles change and makes rules difficult to manage at scale.",
       recommendedApproach |-> "Use custom permissions instead, which are more maintainable and explicit." ],
     [ name |-> "Custom permission bypass",
       regex |-> Cat(<<Lit(<<"N","O","T","(","$","P","e","r","m","i","s","s","i","o","n",".">>), Plus(NotClass({")"})), Lit(<<")">>)>>),
       severity |-> "Low",
       description |-> "Using NOT with permissions is generally acceptable but should be documented and consistently implemented.",
       recommendedApproach |-> "Ensure permission names are consistently structured with prefixes like 'Bypass_' for clarity." ],
     [ name |-> "User ID bypass",
       regex |-> Alt(<< Cat(<<Lit(<<"$","U","s","e","r",".","I","d">>), Star(Space), EqOp>>),
                        Lit(<<"C","O","N","T","A","I","N","S","(","$","U","s","e","r",".","I","d">>) >>),
       severity |-> "High",
       description |-> "Hardcoding specific User IDs creates significant maintenance issues and security risks.",
       recommendedApproach |-> "Use permission sets, custom permissions, or roles instead of specific User IDs." ],
     [ name |-> "Record Type bypass",
       regex |-> Alt(<< Cat(<<Lit(<<"R","e","c","o","r","d","T","y","p","e",".","N","a","m","e">>), Star(Space), Lit(<<"!","=">>)>>),
                        Cat(<<Lit(<<"R","e","c","o","r","d","T","y","p","e",".","N","a","m","e">>), Star(Space), Lit(<<"<",">">>)>>) >>),
       severity |-> "Medium",
       description |-> "Explicitly excluding certain record types can create maintenance challenges.",
       recommendedApproach |-> "Use explicit inclusion rather than exclusion when possible." ],
     [ name |-> "Owner ID bypass",
       regex |-> Cat(<<Lit(<<"O","w","n","e","r","I","d">>), Star(Space), EqOp, Star(Space), Lit(<<"$","U","s","e","r",".","I","d">>)>>),
       severity |-> "Medium",
       description |-> "Bypassing validation for record owners may create inconsistent data validation.",
       recommendedApproach |-> "Consider permission-based approaches that don't depend on record ownership." ] >>

apexTriggerPatterns ==
  << [ name |-> "Feature management permission check",
       regex |-> Cat(<< Lit(<<"F","e","a","t","u","r","e","M","a","n","a","g","e","m","e","n","t",".","c","h","e","c","k","P","e","r","m","i","s","s","i","o","n">>), Star(Space),
                        Lit(<<"(">>), Star(Space), Quote,
                        Plus(NotClass({"'", "\""})), Quote, Star(Space), Lit(<<")">>) >>),
       severity |-> "Low",
       description |-> "Using FeatureManagement to check permissions is recommended, but should be implemented consistently.",
       recommendedApproach |-> "Use a consistent pattern like return !FeatureManagement.checkPermission('Bypass_Trigger');" ],
     [ name |-> "Custom setting bypass",
       regex |-> Cat(<< Plus(Class(Word)), Lit(<<"_","_","c">>), Lit(<<".">>),
                        Plus(Class(Word)), Lit(<<"_","_","c">>) >>),
       severity |-> "Medium",
       description |-> "Using custom settings to control trigger execution can create maintenance challenges.",
       recommendedApproach |-> "Document the custom setting usage and ensure consistent implementation." ],
     [ name |-> "Hardcoded User ID check",
       regex |-> Cat(<< Lit(<<"I","d">>), Star(Space), Lit(<<"=","=">>), Star(Space), Quote,
                        Lit(<<"0","0","5">>), Rep(Class(AlphaNum), 12, 15), Quote >>),
       severity |-> "High",
       description |-> "Hardcoding User IDs creates significant maintenance issues and security risks.",
       recommendedApproach |-> "Use permission sets, custom permissions, or roles instead of specific User IDs." ],
     [ name |-> "Profile name check",
       regex |-> Alt(<< Cat(<< LitI(<<"p","r","o","f","i","l","e",".","n","a","m","e">>), Star(Space), Lit(<<"=","=">>),
                               Star(Space), Quote >>),
                        Cat(<< LitI(<<"u","s","e","r","i","n","f","o",".","g","e","t","p","r","o","f","i","l","e","i","d","(",")">>), Star(Space), Lit(<<"=","=">>),
                               Star(Space), Quote >>) >>),
       severity |-> "Medium",
       description |-> "Using profile names or IDs to bypass logic creates maintenance challenges.",
       recommendedApproach |-> "Use custom permissions instead of relying on profiles." ] >>

PatternNames(patterns) == {patterns[k].name : k \in DOMAIN patterns}

\* the catalog entries whose regex matches the text, in catalog order, as
\* pushed onto foundPatterns
FoundPatterns(patterns, text) ==
  LET matched(pattern) == test(pattern.regex, text)
      hit == SelectSeq(patterns, matched)
  IN [k \in DOMAIN hit |->
        [name |-> hit[k].name, severity |-> hit[k].severity,
         description |-> hit[k].description,
         recommendedApproach |-> hit[k].recommendedApproach]]

\* determineHighestSeverity that takes the severity of the first match
determineHighestSeverity_FirstMatch(patterns) ==
  IF Len(patterns) = 0 THEN "Low" ELSE patterns[1].severity

determineHighestSeverity(patterns) ==
  IF \E k \in DOMAIN patterns : patterns[k].severity = "High" THEN "High"
  ELSE IF \E k \in DOMAIN patterns : patterns[k].severity = "Medium" THEN "Medium"
  ELSE "Low"

Max(a, b) == IF a >= b THEN a ELSE b
Min(a, b) == IF a <= b THEN a ELSE b

\* calculateSecurityScore that deducts 0.3 times the rounded percentage
calculateSecurityScore_RoundedPercentage(results, type) ==
  LET componentsWithBypass ==
        IF type = "trigger" THEN results.triggersWithBypass ELSE results.rulesWithBypass
      totalComponents ==
        IF type = "trigger" THEN results.totalTriggers ELSE results.totalRules
      highSeverityComponents ==
        IF type = "trigger" THEN Len(results.triggersBySeverity.High)
        ELSE Len(results.rulesBySeverity.High)
      mediumSeverityComponents ==
        IF type = "trigger" THEN Len(results.triggersBySeverity.Medium)
        ELSE Len(results.rulesBySeverity.Medium)
      bypassPercentage ==
        ((200 * componentsWithBypass + totalComponents) \div (2 * totalComponents))
      tenths ==
        1000 - 3 * bypassPercentage
        - 50 * highSeverityComponents - 20 * mediumSeverityComponents
  IN IF totalComponents = 0 THEN NaN
     ELSE Num(Max(0, Min(100, (2 * tenths + 10) \div 20)))

\* calculateSecurityScore(results, type).  The score before rounding is the
\* rational (100 t - 30 c - 5 h t - 2 m t) / t; with t = 0 the quotient
\* c / t is 0 / 0 = NaN, which Math.round, Math.min and Math.max pass on.
calculateSecurityScore(results, type) ==
  LET componentsWithBypass ==
        IF type = "trigger" THEN results.triggersWithBypass ELSE results.rulesWithBypass
      totalComponents ==
        IF type = "trigger" THEN results.totalTriggers ELSE results.totalRules
      highSeverityComponents ==
        IF type = "trigger" THEN Len(results.triggersBySeverity.High)
        ELSE Len(results.rulesBySeverity.High)
      mediumSeverityComponents ==
        IF type = "trigger" THEN Len(results.triggersBySeverity.Medium)
        ELSE Len(results.rulesBySeverity.Medium)
      numerator ==
        100 * totalComponents - 30 * componentsWithBypass
        - 5 * highSeverityComponents * totalComponents
        - 2 * mediumSeverityComponents * totalComponents
  IN IF totalComponents = 0 THEN NaN
     ELSE Num(Max(0, Min(100,
            (2 * numerator + totalComponents) \div (2 * totalComponents))))

\* AnalyzeRule that reports every rule, matched or not (length >= 0)
AnalyzeRule_ReportsEveryRule(results, rule) ==
  LET apiName == StrProp2(rule, "apiName", "fullName")
      formula == StrProp2(rule, "errorConditionFormula", "formula")
      foundPatterns == FoundPatterns(validationRulePatterns, formula)
      found == {foundPatterns[k].name : k \in DOMAIN foundPatterns}
      tracked == [results EXCEPT !.rulesByPattern =
                    [n \in DOMAIN @ |-> IF n \in found THEN Append(@[n], apiName) ELSE @[n]]]
      highestSeverity == determineHighestSeverity(foundPatterns)
      ruleWithPatterns ==
        [apiName |-> apiName,
         active |-> BoolProp(rule, "active"),
         description |-> StrProp(rule, "description"),
         patterns |-> foundPatterns,
         highestSeverity |-> highestSeverity]
  IN [tracked EXCEPT
        !.bypassPatterns = Append(@, ruleWithPatterns),
        !.rulesBySeverity[highestSeverity] = Append(@, apiName),
        !.rulesWithBypass = @ + 1]

\* AnalyzeRule that lists the rule under the first detection rule it
\* matches only
AnalyzeRule_TracksFirstPattern(results, rule) ==
  LET apiName == StrProp2(rule, "apiName", "fullName")
      formula == StrProp2(rule, "errorConditionFormula", "formula")
      foundPatterns == FoundPatterns(validationRulePatterns, formula)
      found == {foundPatterns[k].name : k \in DOMAIN foundPatterns \cap {1}}
      tracked == [results EXCEPT !.rulesByPattern =
                    [n \in DOMAIN @ |-> IF n \in found THEN Append(@[n], apiName) ELSE @[n]]]
  IN IF Len(foundPatterns) > 0
     THEN LET highestSeverity == determineHighestSeverity(foundPatterns)
              ruleWithPatterns ==
                [apiName |-> apiName,
                 active |-> BoolProp(rule, "active"),
                 description |-> StrProp(rule, "description"),
                 patterns |-> foundPatterns,
                 highestSeverity |-> highestSeverity]
          IN [tracked EXCEPT
                !.bypassPatterns = Append(@, ruleWithPatterns),
                !.rulesBySeverity[highestSeverity] = Append(@, apiName),
                !.rulesWithBypass = @ + 1]
     ELSE tracked

\* the body of validationRules.forEach
AnalyzeRule(results, rule) ==
  LET apiName == StrProp2(rule, "apiName", "fullName")
      formula == StrProp2(rule, "errorConditionFormula", "formula")
      foundPatterns == FoundPatterns(validationRulePatterns, formula)
      found == {foundPatterns[k].name : k \in DOMAIN foundPatterns}
      tracked == [results EXCEPT !.rulesByPattern =
                    [n \in DOMAIN @ |-> IF n \in found THEN Append(@[n], apiName) ELSE @[n]]]
  IN IF Len(foundPatterns) > 0
     THEN LET highestSeverity == determineHighestSeverity(foundPatterns)
              ruleWithPatterns ==
                [apiName |-> apiName,
                 active |-> BoolProp(rule, "active"),
                 description |-> StrProp(rule, "description"),
                 patterns |-> foundPatterns,
                 highestSeverity |-> highestSeverity]
          IN [tracked EXCEPT
                !.bypassPatterns = Append(@, ruleWithPatterns),
                !.rulesBySeverity[highestSeverity] = Append(@, apiName),
                !.rulesWithBypass = @ + 1]
     ELSE tracked

RECURSIVE FoldRules(_, _, _)
FoldRules(results, rules, k) ==
  IF k > Len(rules) THEN results
  ELSE FoldRules(AnalyzeRule(results, rules[k]), rules, k + 1)

\* the outcome of analyzeValidationRules(validationRules)
analyzeValidationRules(validationRules) ==
  IF Falsy(validationRules) \/ ~isArray(validationRules)
  THEN Thrown("analyzeValidationRules", "Validation rule data must be provided as an array")
  ELSE LET results0 ==
             [bypassPatterns |-> <<>>,
              rulesByPattern |-> [n \in PatternNames(validationRulePatterns) |-> <<>>],
              rulesBySeverity |-> [High |-> <<>>, Medium |-> <<>>, Low |-> <<>>],
              totalRules |-> Len(validationRules.items),
              rulesWithBypass |-> 0]
           results == FoldRules(results0, validationRules.items, 1)
       IN Returned("analyzeValidationRules",
            [bypassPatterns |-> results.bypassPatterns,
             rulesByPattern |-> results.rulesByPattern,
             rulesBySeverity |-> results.rulesBySeverity,
             totalRules |-> results.totalRules,
             rulesWithBypass |-> results.rulesWithBypass,
             bypassPercentage |->
               RoundedPercentage(results.rulesWithBypass, results.totalRules),
             securityScore |-> calculateSecurityScore(results, "validation")])

\* AnalyzeTrigger that files every trigger in the Low bucket
AnalyzeTrigger_FilesUnderLow(results, trigger) ==
  LET name == StrProp(trigger, "name")
      code == StrProp2(trigger, "content", "code")
      foundPatterns == FoundPatterns(apexTriggerPatterns, code)
      found == {foundPatterns[k].name : k \in DOMAIN foundPatterns}
      tracked == [results EXCEPT !.triggersByPattern =
                    [n \in DOMAIN @ |-> IF n \in found THEN Append(@[n], name) ELSE @[n]]]
  IN IF Len(foundPatterns) > 0
     THEN LET highestSeverity == determineHighestSeverity(foundPatterns)
              triggerWithPatterns ==
                [name |-> name,
                 active |-> BoolProp(trigger, "active"),
                 patterns |-> foundPatterns,
                 highestSeverity |-> highestSeverity]
          IN [tracked EXCEPT
                !.bypassPatterns = Append(@, triggerWithPatterns),
                !.triggersBySeverity["Low"] = Append(@, name),
                !.triggersWithBypass = @ + 1]
     ELSE tracked

\* the body of triggers.forEach
AnalyzeTrigger(results, trigger) ==
  LET name == StrProp(trigger, "name")
      code == StrProp2(trigger, "content", "code")
      foundPatterns == FoundPatterns(apexTriggerPatterns, code)
      found == {foundPatterns[k].name : k \in DOMAIN foundPatterns}
      tracked == [results EXCEPT !.triggersByPattern =
                    [n \in DOMAIN @ |-> IF n \in found THEN Append(@[n], name) ELSE @[n]]]
  IN IF Len(foundPatterns) > 0
     THEN LET highestSeverity == determineHighestSeverity(foundPatterns)
              triggerWithPatterns ==
                [name |-> name,
                 active |-> BoolProp(trigger, "active"),
                 patterns |-> foundPatterns,
                 highestSeverity |-> highestSeverity]
          IN [tracked EXCEPT
                !.bypassPatterns = Append(@, triggerWithPatterns),
                !.triggersBySeverity[highestSeverity] = Append(@, name),
                !.triggersWithBypass = @ + 1]
     ELSE tracked

RECURSIVE FoldTriggers(_, _, _)
FoldTriggers(results, triggers, k) ==
  IF k > Len(triggers) THEN results
  ELSE FoldTriggers(AnalyzeTrigger(results, triggers[k]), triggers, k + 1)

\* the outcome of analyzeApexTriggers(triggers)
analyzeApexTriggers(triggers) ==
  IF Falsy(triggers) \/ ~isArray(triggers)
  THEN Thrown("analyzeApexTriggers", "Trigger data must be provided as an array")
  ELSE LET results0 ==
             [bypassPatterns |-> <<>>,
              triggersByPattern |-> [n \in PatternNames(apexTriggerPatterns) |-> <<>>],
              triggersBySeverity |-> [High |-> <<>>, Medium |-> <<>>, Low |-> <<>>],
              totalTriggers |-> Len(triggers.items),
              triggersWithBypass |-> 0]
           results == FoldTriggers(results0, triggers.items, 1)
       IN Returned("analyzeApexTriggers",
            [bypassPatterns |-> results.bypassPatterns,
             triggersByPattern |-> results.triggersByPattern,
             triggersBySeverity |-> results.triggersBySeverity,
             totalTriggers |-> results.totalTriggers,
             triggersWithBypass |-> results.triggersWithBypass,
             bypassPercentage |->
               RoundedPercentage(results.triggersWithBypass, results.totalTriggers),
             securityScore |-> calculateSecurityScore(results, "trigger")])

\* String.prototype.localeCompare on identifiers (letters, digits and
\* underscores) under the default collation: the underscore sorts before the
\* digits, the digits before the letters, letters compare without regard to
\* case first, and a lowercase letter precedes its uppercase form when the
\* strings are otherwise equal
IndexIn(s, c) == CHOOSE k \in DOMAIN s : s[k] = c

PrimaryWeight(c) ==
  IF c \in Range(Digits) THEN IndexIn(Digits, c)
  ELSE IF c \in Range(LowerLetters) THEN Len(Digits) + IndexIn(LowerLetters, c)
  ELSE IF c \in Range(UpperLetters) THEN Len(Digits) + IndexIn(UpperLetters, c)
  ELSE 0

RECURSIVE ComparePrimary(_, _, _)
ComparePrimary(a, b, k) ==
  IF k > Len(a) /\ k > Len(b) THEN 0
  ELSE IF k > Len(a) THEN -1
  ELSE IF k > Len(b) THEN 1
  ELSE IF PrimaryWeight(a[k]) < PrimaryWeight(b[k]) THEN -1
  ELSE IF PrimaryWeight(a[k]) > PrimaryWeight(b[k]) THEN 1
  ELSE ComparePrimary(a, b, k + 1)

RECURSIVE CompareCase(_, _, _)
CompareCase(a, b, k) ==
  IF k > Len(a) THEN 0
  ELSE IF a[k] = b[k] THEN CompareCase(a, b, k + 1)
  ELSE IF a[k] \in Range(LowerLetters) THEN -1
  ELSE 1

localeCompare(a, b) ==
  LET primary == ComparePrimary(a, b, 1)
  IN IF primary # 0 THEN primary ELSE CompareCase(a, b, 1)

severityOrder == [High |-> 0, Medium |-> 1, Low |-> 2]

\* a.apiName || a.name
IdentifierOf(a) ==
  IF "apiName" \in DOMAIN a /\ a.apiName # <<>> THEN a.apiName ELSE a.name

\* ComparePriorities with the severity difference taken the other way round
ComparePriorities_LowFirst(a, b) ==
  IF severityOrder[a.highestSeverity] # severityOrder[b.highestSeverity]
  THEN severityOrder[b.highestSeverity] - severityOrder[a.highestSeverity]
  ELSE localeCompare(IdentifierOf(a), IdentifierOf(b))

\* the comparator given to sort
ComparePriorities(a, b) ==
  IF severityOrder[a.highestSeverity] # severityOrder[b.highestSeverity]
  THEN severityOrder[a.highestSeverity] - severityOrder[b.highestSeverity]
  ELSE localeCompare(IdentifierOf(a), IdentifierOf(b))

\* Array.prototype.sort is stable: x goes behind every element that does not
\* compare greater than it
InsertSorted(sorted, x) ==
  LET behind == {k \in DOMAIN sorted : ComparePriorities(sorted[k], x) > 0}
      at == IF behind = {} THEN Len(sorted) + 1
            ELSE CHOOSE k \in behind : \A j \in behind : k <= j
  IN SubSeq(sorted, 1, at - 1) \o <<x>> \o SubSeq(sorted, at, Len(sorted))

RECURSIVE SortFrom(_, _, _)
SortFrom(sorted, components, k) ==
  IF k > Len(components) THEN sorted
  ELSE SortFrom(InsertSorted(sorted, components[k]), components, k + 1)

\* generateRefactoringPriorities(results, type): the sorted findings.  The
\* sort is in place, so results.bypassPatterns is the same sorted array
\* afterwards.
generateRefactoringPriorities(results) == SortFrom(<<>>, results.bypassPatterns, 1)

---------------------------------------------------------------------------
(* NamingConventionAnalyzer: the summary report *)

\* the number of positions of s that hold x
Occurrences(s, x) == Cardinality({k \in DOMAIN s : s[k] = x})

\* the elements of s, each once, in the order of their first occurrence
RECURSIVE DistinctFrom(_, _, _)
DistinctFrom(kept, s, k) ==
  IF k > Len(s) THEN kept
  ELSE DistinctFrom(IF s[k] \in Range(kept) THEN kept ELSE Append(kept, s[k]), s, k + 1)

Distinct(s) == DistinctFrom(<<>>, s, 1)

\* the rule descriptions of all issues of all violation records, in order
RECURSIVE IssueRules(_, _)
IssueRules(violations, k) ==
  IF k > Len(violations) THEN <<>>
  ELSE [j \in DOMAIN violations[k].violations |-> violations[k].violations[j].rule]
       \o IssueRules(violations, k + 1)

\* sort((a, b) => b[1] - a[1]): stable, greatest count first
InsertByCount(sorted, x) ==
  LET behind == {k \in DOMAIN sorted : x.count - sorted[k].count > 0}
      at == IF behind = {} THEN Len(sorted) + 1
            ELSE CHOOSE k \in behind : \A j \in behind : k <= j
  IN SubSeq(sorted, 1, at - 1) \o <<x>> \o SubSeq(sorted, at, Len(sorted))

RECURSIVE SortByCount(_, _, _)
SortByCount(sorted, entries, k) ==
  IF k > Len(entries) THEN sorted
  ELSE SortByCount(InsertByCount(sorted, entries[k]), entries, k + 1)

\* slice(0, n) of an array
Take(s, n) == SubSeq(s, 1, Min(n, Len(s)))

\* Object.entries lists the rule descriptions in the order they were first
\* counted
identifyTopIssues(violations) ==
  LET rules == IssueRules(violations, 1)
      keys == Distinct(rules)
      entries == [k \in DOMAIN keys |->
                    [rule |-> keys[k], count |-> Occurrences(rules, keys[k])]]
  IN Take(SortByCount(<<>>, entries, 1), 5)

\* generateGeneralRecommendations of the NamingConventionAnalyzer
generateNamingRecommendations(results) ==
  (IF Len(results.bySeverity.critical) > 0
   THEN <<"Immediately address critical naming violations to prevent potential conflicts and maintenance issues">>
   ELSE <<>>)
  \o
  (IF NumLt(results.compliancePercentage, Num(70))
   THEN <<"Create and document clear naming conventions and socialize with team",
          "Consider implementing automated validation for field naming during development">>
   ELSE <<>>)
  \o
  (IF Len(results.bySeverity.critical) = 0 /\ Len(results.bySeverity.medium) > 0
   THEN <<"Address medium-severity naming issues in next planned refactoring cycle">>
   ELSE <<>>)
  \o
  <<"Regularly review and audit field naming as part of maintenance practices">>

generateSummaryReport(results) ==
  [totalFields |-> results.totalFieldCount,
   compliantFields |-> results.compliantFieldCount,
   compliancePercentage |-> results.compliancePercentage,
   violationCount |-> Len(results.violations),
   criticalViolations |-> Len(results.bySeverity.critical),
   mediumViolations |-> Len(results.bySeverity.medium),
   lowViolations |-> Len(results.bySeverity.low),
   topIssues |-> identifyTopIssues(results.violations),
   recommendations |-> generateNamingRecommendations(results)]

---------------------------------------------------------------------------
(* BypassPatternAnalyzer: general recommendations *)

\* generateGeneralRecommendations that asks for the strategy review from
\* 50 percent on (>= 50 instead of > 50)
generateGeneralRecommendations_FromFifty(results, type) ==
  <<"Implement a consistent approach to bypass logic across all components",
    "Use custom permissions instead of profiles or user IDs for bypass logic",
    "Document all bypass mechanisms in a central location for security review">>
  \o
  (IF type = "validation"
   THEN (IF Len(results.rulesBySeverity.High) > 0
         THEN <<"Immediately refactor validation rules with hardcoded User IDs">>
         ELSE <<>>)
        \o
        (IF NumLeq(Num(50), results.bypassPercentage)
         THEN <<"Review overall validation strategy to reduce reliance on bypass patterns">>
         ELSE <<>>)
   ELSE IF type = "trigger"
   THEN (IF Len(results.triggersBySeverity.High) > 0
         THEN <<"Immediately refactor triggers with hardcoded User IDs or Profile checks">>
         ELSE <<>>)
        \o
        <<"Implement a centralized trigger handler framework with consistent bypass logic">>
   ELSE <<>>)

generateGeneralRecommendations(results, type) ==
  <<"Implement a consistent approach to bypass logic across all components",
    "Use custom permissions instead of profiles or user IDs for bypass logic",
    "Document all bypass mechanisms in a central location for security review">>
  \o
  (IF type = "validation"
   THEN (IF Len(results.rulesBySeverity.High) > 0
         THEN <<"Immediately refactor validation rules with hardcoded User IDs">>
         ELSE <<>>)
        \o
        (IF NumLt(Num(50), results.bypassPercentage)
         THEN <<"Review overall validation strategy to reduce reliance on bypass patterns">>
         ELSE <<>>)
   ELSE IF type = "trigger"
   THEN (IF Len(results.triggersBySeverity.High) > 0
         THEN <<"Immediately refactor triggers with hardcoded User IDs or Profile checks">>
         ELSE <<>>)
        \o
        <<"Implement a centralized trigger handler framework with consistent bypass logic">>
   ELSE <<>>)

---------------------------------------------------------------------------
(* AnalysisController *)

\* an object without properties
EmptyObject == [k \in {} |-> TRUE]

\* results.key is present (every value stored under these keys is truthy)
Has(results, key) == key \in DOMAIN results

\* what the try block for the fields stores: the error message of a thrown
\* error, or the analysis and its summary
NamingEntries(outcome) ==
  IF outcome.threw
  THEN [namingConventionsError |-> outcome.error]
  ELSE [namingConventions |-> outcome.value,
        namingConventionsSummary |-> generateSummaryReport(outcome.value)]

\* the part of performAnalyses that deals with inputData.fields
AnalyzeNamingConventions(inputData) ==
  IF Falsy(inputData.fields) THEN EmptyObject
  ELSE NamingEntries(analyzeFields(inputData.fields))

\* a bypass analysis after generateRefactoringPriorities has sorted its
\* bypassPatterns in place
WithSortedFindings(results) ==
  [results EXCEPT !.bypassPatterns = generateRefactoringPriorities(results)]

\* the returned priorities are the sorted bypassPatterns array itself
ValidationResultEntries(sorted) ==
  [validationRules |-> sorted,
   validationRulesRefactoringPriorities |-> sorted.bypassPatterns,
   validationRulesRecommendations |-> generateGeneralRecommendations(sorted, "validation")]

ValidationEntries(outcome) ==
  IF outcome.threw
  THEN [validationRulesError |-> outcome.error]
  ELSE ValidationResultEntries(WithSortedFindings(outcome.value))

\* the part that deals with inputData.validationRules
AnalyzeValidationRuleBypass(inputData) ==
  IF Falsy(inputData.validationRules) THEN EmptyObject
  ELSE ValidationEntries(analyzeValidationRules(inputData.validationRules))

TriggerResultEntries(sorted) ==
  [triggers |-> sorted,
   triggersRefactoringPriorities |-> sorted.bypassPatterns,
   triggersRecommendations |-> generateGeneralRecommendations(sorted, "trigger")]

TriggerEntries(outcome) ==
  IF outcome.threw
  THEN [triggersError |-> outcome.error]
  ELSE TriggerResultEntries(WithSortedFindings(outcome.value))

\* the part that deals with inputData.triggers
AnalyzeTriggerBypass(inputData) ==
  IF Falsy(inputData.triggers) THEN EmptyObject
  ELSE TriggerEntries(analyzeApexTriggers(inputData.triggers))

\* the entries up to and including the first error entry
UpToFirstError(naming, validation, triggers) ==
  IF Has(naming, "namingConventionsError") THEN naming
  ELSE IF Has(validation, "validationRulesError") THEN naming @@ validation
  ELSE naming @@ validation @@ triggers

\* performAnalyses with one try block around the three analyses: the first
\* failure ends the run and only its error is recorded
performAnalyses_OneTryBlock(inputData) ==
  UpToFirstError(AnalyzeNamingConventions(inputData),
                 AnalyzeValidationRuleBypass(inputData),
                 AnalyzeTriggerBypass(inputData))

performAnalyses(inputData) ==
  AnalyzeNamingConventions(inputData)
  @@ AnalyzeValidationRuleBypass(inputData)
  @@ AnalyzeTriggerBypass(inputData)

\* the decimal digits of a natural number
RECURSIVE DigitsOf(_)
DigitsOf(n) ==
  IF n < 10 THEN <<Digits[n + 1]>>
  ELSE DigitsOf(n \div 10) \o <<Digits[(n % 10) + 1]>>

\* a number (a natural or NaN) interpolated into a template string
NumberToString(n) == IF n.nan THEN <<"N","a","N">> ELSE DigitsOf(n.val)

CriticalAttention == "Critical attention required. The configuration contains significant risk factors that should be addressed immediately."
ModerateRisk == "Moderate risk identified. The configuration has several issues that should be addressed in the near term."
LowRisk == "Low risk identified. The configuration is generally sound with minor improvements recommended."

\* the bucket sizes added up over the domains that have a result
RisksIdentified(results) ==
  [critical |->
     (IF Has(results, "namingConventions")
      THEN Len(results.namingConventions.bySeverity.critical) ELSE 0)
     + (IF Has(results, "validationRules")
        THEN Len(results.validationRules.rulesBySeverity.High) ELSE 0)
     + (IF Has(results, "triggers")
        THEN Len(results.triggers.triggersBySeverity.High) ELSE 0),
   medium |->
     (IF Has(results, "namingConventions")
      THEN Len(results.namingConventions.bySeverity.medium) ELSE 0)
     + (IF Has(results, "validationRules")
        THEN Len(results.validationRules.rulesBySeverity.Medium) ELSE 0)
     + (IF Has(results, "triggers")
        THEN Len(results.triggers.triggersBySeverity.Medium) ELSE 0),
   low |->
     (IF Has(results, "namingConventions")
      THEN Len(results.namingConventions.bySeverity.low) ELSE 0)
     + (IF Has(results, "validationRules")
        THEN Len(results.validationRules.rulesBySeverity.Low) ELSE 0)
     + (IF Has(results, "triggers")
        THEN Len(results.triggers.triggersBySeverity.Low) ELSE 0)]

\* OverallAssessment that asks for critical attention from five critical
\* issues on (>= 5 instead of > 5)
OverallAssessment_FromFive(risksIdentified) ==
  LET totalIssues ==
        risksIdentified.critical + risksIdentified.medium + risksIdentified.low
      criticalPercentOver20 ==
        totalIssues # 0 /\ 100 * risksIdentified.critical > 20 * totalIssues
  IN IF risksIdentified.critical >= 5 \/ criticalPercentOver20 THEN CriticalAttention
     ELSE IF risksIdentified.critical > 0 \/ risksIdentified.medium > 10 THEN ModerateRisk
     ELSE LowRisk

\* (critical / totalIssues) * 100 || 0 is 0 when there are no issues (0 / 0 is
\* NaN, which is falsy), so criticalPercent > 20 is
\* 100 critical > 20 totalIssues with totalIssues # 0
OverallAssessment(risksIdentified) ==
  LET totalIssues ==
        risksIdentified.critical + risksIdentified.medium + risksIdentified.low
      criticalPercentOver20 ==
        totalIssues # 0 /\ 100 * risksIdentified.critical > 20 * totalIssues
  IN IF risksIdentified.critical > 5 \/ criticalPercentOver20 THEN CriticalAttention
     ELSE IF risksIdentified.critical > 0 \/ risksIdentified.medium > 10 THEN ModerateRisk
     ELSE LowRisk

KeyFindings(results) ==
  (IF Has(results, "namingConventions")
   THEN <<NumberToString(results.namingConventions.compliancePercentage)
          \o <<"%"," ","o","f"," ","f","i","e","l","d","s"," ","c","o","m","p","l","y"," ","w","i","t","h"," ","n","a","m","i","n","g"," ","c","o","n","v","e","n","t","i","o","n","s",".">>>>
   ELSE <<>>)
  \o
  (IF Has(results, "validationRules")
   THEN <<NumberToString(results.validationRules.bypassPercentage)
          \o <<"%"," ","o","f"," ","v","a","l","i","d","a","t","i","o","n"," ","r","u","l","e","s"," ","c","o","n","t","a","i","n"," ","b","y","p","a","s","s"," ","p","a","t","t","e","r","n","s",".">>>>
   ELSE <<>>)
  \o
  (IF Has(results, "triggers")
   THEN <<NumberToString(results.triggers.bypassPercentage)
          \o <<"%"," ","o","f"," ","A","p","e","x"," ","t","r","i","g","g","e","r","s"," ","c","o","n","t","a","i","n"," ","b","y","p","a","s","s"," ","p","a","t","t","e","r","n","s",".">>>>
   ELSE <<>>)

generateExecutiveSummary(results) ==
  [overallAssessment |-> OverallAssessment(RisksIdentified(results)),
   keyFindings |-> KeyFindings(results),
   risksIdentified |-> RisksIdentified(results)]

GovernanceRecommendations ==
  <<"Implement a governance process to regularly review and audit configuration changes.",
    "Document all configuration standards and patterns in a central location.",
    "Provide training to developers on secure and maintainable configuration practices.">>

\* the recommendations pushed before the duplicates are removed
CollectedRecommendations(results) ==
  (IF Has(results, "namingConventionsSummary")
   THEN results.namingConventionsSummary.recommendations ELSE <<>>)
  \o (IF Has(results, "validationRulesRecommendations")
      THEN results.validationRulesRecommendations ELSE <<>>)
  \o (IF Has(results, "triggersRecommendations")
      THEN results.triggersRecommendations ELSE <<>>)
  \o GovernanceRecommendations

\* generateRecommendations without the Set: duplicates stay
generateRecommendations_KeepsDuplicates(results) == CollectedRecommendations(results)

\* [...new Set(recommendations)] keeps the first occurrence of each string
generateRecommendations(results) == Distinct(CollectedRecommendations(results))

\* the rating bands of calculateOverallScore; no comparison holds for NaN
RatingOf(weightedAverage) ==
  IF NumLeq(Num(90), weightedAverage) THEN "Excellent"
  ELSE IF NumLeq(Num(75), weightedAverage) THEN "Good"
  ELSE IF NumLeq(Num(60), weightedAverage) THEN "Fair"
  ELSE IF NumLeq(Num(40), weightedAverage) THEN "Poor"
  ELSE "Critical"

\* score || 0
OrZero(n) == IF n.nan THEN Num(0) ELSE n

RECURSIVE SumOf(_, _)
SumOf(s, k) == IF k > Len(s) THEN 0 ELSE s[k] + SumOf(s, k + 1)

\* the scores pushed by calculateOverallScore and twice their weights
\* (1, 1.5 and 1.5)
PushedScores(results) ==
  (IF Has(results, "namingConventions")
   THEN <<results.namingConventions.compliancePercentage>> ELSE <<>>)
  \o (IF Has(results, "validationRules")
      THEN <<results.validationRules.securityScore>> ELSE <<>>)
  \o (IF Has(results, "triggers")
      THEN <<results.triggers.securityScore>> ELSE <<>>)

PushedWeights(results) ==
  (IF Has(results, "namingConventions") THEN <<2>> ELSE <<>>)
  \o (IF Has(results, "validationRules") THEN <<3>> ELSE <<>>)
  \o (IF Has(results, "triggers") THEN <<3>> ELSE <<>>)

ComponentScores(results) ==
  [namingConventions |->
     IF Has(results, "namingConventions")
     THEN OrZero(results.namingConventions.compliancePercentage) ELSE Num(0),
   validationRules |->
     IF Has(results, "validationRules")
     THEN OrZero(results.validationRules.securityScore) ELSE Num(0),
   triggers |->
     IF Has(results, "triggers")
     THEN OrZero(results.triggers.securityScore) ELSE Num(0)]

\* calculateOverallScore that gives every domain the weight 1
calculateOverallScore_EqualWeights(results) ==
  LET scores == PushedScores(results)
  IN IF Len(scores) = 0 THEN [score |-> Num(0), rating |-> "N/A"]
     ELSE LET totalWeight == Len(scores)
              weightedSum == SumOf([k \in DOMAIN scores |-> scores[k].val], 1)
              weightedAverage ==
                IF \E k \in DOMAIN scores : scores[k].nan THEN NaN
                ELSE Num((2 * weightedSum + totalWeight) \div (2 * totalWeight))
          IN [score |-> weightedAverage,
              rating |-> RatingOf(weightedAverage),
              componentScores |-> ComponentScores(results)]

\* Math.round(weightedSum / totalWeight) = floor((2 s + w) / (2 w)), with s
\* and w the doubled sum and weight; a NaN score makes the sum NaN
calculateOverallScore(results) ==
  LET scores == PushedScores(results)
      weights == PushedWeights(results)
  IN IF Len(scores) = 0 THEN [score |-> Num(0), rating |-> "N/A"]
     ELSE LET totalWeight == SumOf(weights, 1)
              weightedSum ==
                SumOf([k \in DOMAIN scores |-> scores[k].val * weights[k]], 1)
              weightedAverage ==
                IF \E k \in DOMAIN scores : scores[k].nan THEN NaN
                ELSE Num((2 * weightedSum + totalWeight) \div (2 * totalWeight))
          IN [score |-> weightedAverage,
              rating |-> RatingOf(weightedAverage),
              componentScores |-> ComponentScores(results)]

\* the detailedFindings of generateComprehensiveReport
DetailedFindings(results) ==
  (IF Has(results, "namingConventions")
   THEN [namingConventions |->
           [compliancePercentage |-> results.namingConventions.compliancePercentage,
            violations |->
              [k \in DOMAIN results.namingConventions.violations |->
                 LET v == results.namingConventions.violations[k]
                 IN [field |-> v.apiName,
                     issues |-> [j \in DOMAIN v.violations |-> v.violations[j].rule],
                     recommendation |-> v.recommendedFix]],
            topIssues |-> results.namingConventionsSummary.topIssues]]
   ELSE EmptyObject)
  @@
  (IF Has(results, "validationRules")
   THEN [validationRules |->
           [securityScore |-> results.validationRules.securityScore,
            bypassPercentage |-> results.validationRules.bypassPercentage,
            patterns |->
              [k \in DOMAIN results.validationRules.bypassPatterns |->
                 LET p == results.validationRules.bypassPatterns[k]
                 IN [rule |-> p.apiName,
                     patterns |-> [j \in DOMAIN p.patterns |-> p.patterns[j].name],
                     severity |-> p.highestSeverity]],
            refactoringPriorities |->
              LET top == Take(results.validationRulesRefactoringPriorities, 5)
              IN [k \in DOMAIN top |-> top[k].apiName]]]
   ELSE EmptyObject)
  @@
  (IF Has(results, "triggers")
   THEN [triggers |->
           [securityScore |-> results.triggers.securityScore,
            bypassPercentage |-> results.triggers.bypassPercentage,
            patterns |->
              [k \in DOMAIN results.triggers.bypassPatterns |->
                 LET p == results.triggers.bypassPatterns[k]
                 IN [trigger |-> p.name,
                     patterns |-> [j \in DOMAIN p.patterns |-> p.patterns[j].name],
                     severity |-> p.highestSeverity]],
            refactoringPriorities |->
              LET top == Take(results.triggersRefactoringPriorities, 5)
              IN [k \in DOMAIN top |-> top[k].name]]]
   ELSE EmptyObject)

generateComprehensiveReport(results) ==
  [executiveSummary |-> generateExecutiveSummary(results),
   detailedFindings |-> DetailedFindings(results),
   recommendations |-> generateRecommendations(results),
   overallScore |-> calculateOverallScore(results)]

---------------------------------------------------------------------------
(* The values a caller hands to an analyzer *)

Array(items) == [tag |-> "array", items |-> items]

\* field metadata records (one with fullName only, one with no name at all)
FieldPool ==
  { [apiName |-> <<"c","u","s","t","o","m","F","i","e","l","d","_","_","c">>, label |-> <<"C","u","s","t","o","m">>, type |-> <<"T","e","x","t">>],
    [apiName |-> <<"n","c","_","L","o","a","n","_","S","c","o","r","e","_","_","c">>, label |-> <<"S","c","o","r","e">>, type |-> <<"N","u","m","b","e","r">>],
    [apiName |-> <<"l","o","a","n","_","s","t","a","t","u","s">>],
    [apiName |-> <<"L","L","C","_","B","I","_","_","L","o","a","n","_","_","c">>, type |-> <<"L","o","o","k","u","p">>],
    [apiName |-> <<"n","c","_","S","t","a","t","u","s","_","_","c">>],
    [apiName |-> <<"L","o","a","n","_","A","m","o","u","n","t","_","_","X">>],
    [apiName |-> <<"R","a","t","e","_","_","c">>],
    [apiName |-> <<"B","r","a","n","c","h","_","L","o","a","n","_","_","c">>],
    [apiName |-> <<"L","O","A","N","_","R","a","t","e","_","_","X">>],
    [fullName |-> <<"L","L","C","_","B","I","_","_","A","m","o","u","n","t","_","_","c">>],
    [label |-> <<"U","n","n","a","m","e","d">>] }

\* validation rule records (one with the formula under the key formula)
RulePool ==
  { [apiName |-> <<"V","R","_","U","s","e","r","E","q">>, active |-> TRUE,
     errorConditionFormula |-> <<"$","U","s","e","r",".","I","d"," ","=","="," ","'","0","0","5","0","0","0","0","0","0","0","0","0","0","0","1","'">>],
    [apiName |-> <<"V","R","_","U","s","e","r","I","n">>, active |-> TRUE,
     errorConditionFormula |-> <<"C","O","N","T","A","I","N","S","(","$","U","s","e","r",".","I","d",","," ","'","0","0","5","'",")">>],
    [apiName |-> <<"V","R","_","P","r","o","f","i","l","e">>, active |-> FALSE,
     errorConditionFormula |-> <<"C","O","N","T","A","I","N","S","(","$","P","r","o","f","i","l","e",".","N","a","m","e",","," ","'","A","d","m","i","n","'",")">>],
    [apiName |-> <<"V","R","_","P","r","o","f","i","l","e","E","q">>, active |-> TRUE,
     errorConditionFormula |-> <<"$","P","r","o","f","i","l","e",".","N","a","m","e"," ","!","="," ","'","A","d","m","i","n","'">>],
    [apiName |-> <<"V","R","_","P","e","r","m">>, active |-> TRUE,
     errorConditionFormula |-> <<"N","O","T","(","$","P","e","r","m","i","s","s","i","o","n",".","B","y","p","a","s","s","_","V","R",")">>],
    [apiName |-> <<"V","R","_","R","e","c","T","y","p","e">>, active |-> TRUE,
     errorConditionFormula |-> <<"R","e","c","o","r","d","T","y","p","e",".","N","a","m","e"," ","!","="," ","'","R","e","t","a","i","l","'">>],
    [apiName |-> <<"V","R","_","P","e","r","m","U","s","e","r">>, active |-> TRUE,
     errorConditionFormula |-> <<"N","O","T","(","$","P","e","r","m","i","s","s","i","o","n",".","X",")"," ","&","&"," ","C","O","N","T","A","I","N","S","(","$","U","s","e","r",".","I","d",","," ","'","0","0","5","'",")">>],
    [apiName |-> <<"V","R","_","O","w","n","e","r">>, active |-> TRUE,
     errorConditionFormula |-> <<"O","w","n","e","r","I","d"," ","=","=","="," ","$","U","s","e","r",".","I","d">>],
    [apiName |-> <<"V","R","_","B","l","a","n","k">>, active |-> TRUE,
     errorConditionFormula |-> <<"I","S","B","L","A","N","K","(","N","a","m","e",")">>],
    [apiName |-> <<"V","R","_","A","m","o","u","n","t">>, formula |-> <<"A","m","o","u","n","t","_","_","c"," ","<"," ","0">>] }

\* Apex trigger records (one with the source under the key code)
TriggerPool ==
  { [name |-> <<"A","c","c","o","u","n","t","T","r","i","g","g","e","r">>, active |-> TRUE,
     content |-> <<"i","f"," ","(","F","e","a","t","u","r","e","M","a","n","a","g","e","m","e","n","t",".","c","h","e","c","k","P","e","r","m","i","s","s","i","o","n","(","'","B","y","p","a","s","s","'",")",")"," ","r","e","t","u","r","n",";">>],
    [name |-> <<"L","o","a","n","T","r","i","g","g","e","r">>, active |-> TRUE,
     content |-> <<"i","f"," ","(","C","f","g","_","_","c",".","O","f","f","_","_","c",")"," ","r","e","t","u","r","n",";">>],
    [name |-> <<"U","s","e","r","T","r","i","g","g","e","r">>, active |-> TRUE,
     content |-> <<"i","f"," ","(","u",".","I","d"," ","=","="," ","'","0","0","5","0","0","0","0","0","0","0","0","0","0","0","1","A","A","A","'",")"," ","r","e","t","u","r","n",";">>],
    [name |-> <<"S","h","o","r","t","I","d","T","r","i","g","g","e","r">>, active |-> FALSE,
     content |-> <<"i","f"," ","(","u",".","I","d"," ","=","="," ","'","0","0","5","0","0","0","0","0","0","0","1","'",")"," ","r","e","t","u","r","n",";">>],
    [name |-> <<"P","r","o","f","i","l","e","T","r","i","g","g","e","r">>, active |-> TRUE,
     content |-> <<"i","f"," ","(","p",".","P","r","o","f","i","l","e",".","N","a","m","e"," ","=","="," ","'","A","d","m","i","n","'",")"," ","r","e","t","u","r","n",";">>],
    [name |-> <<"P","l","a","i","n","T","r","i","g","g","e","r">>, active |-> TRUE, content |-> <<"i","n","s","e","r","t"," ","a","c","c",";">>],
    [name |-> <<"C","o","d","e","T","r","i","g","g","e","r">>, code |-> <<"u","p","d","a","t","e"," ","c",";">>] }

SeqsUpTo(S, n) == UNION {[1..k -> S] : k \in 0..n}

\* values that are not arrays: undefined, null, numbers, strings, an object
NonArrays ==
  { [tag |-> "undefined"], [tag |-> "null"],
    [tag |-> "number", num |-> 0], [tag |-> "number", num |-> 7],
    [tag |-> "string", str |-> <<>>], [tag |-> "string", str |-> <<"f","i","e","l","d","s",".","j","s","o","n">>],
    [tag |-> "object"] }

Arrays ==
  {Array(items) : items \in SeqsUpTo(FieldPool, MaxLen) \cup SeqsUpTo(RulePool, MaxLen)
                              \cup SeqsUpTo(TriggerPool, MaxLen)}

Copies(rec, n) == [k \in 1..n |-> rec]

CopyCounts == {0, 1, MaxCopies - 1, MaxCopies, ManyCopies}

RuleNamed(n) == CHOOSE rec \in RulePool : rec.apiName = n
TriggerNamed(n) == CHOOSE rec \in TriggerPool : rec.name = n

\* a rule and a trigger of each severity, and one of each that matches nothing
HighRule == RuleNamed(<<"V","R","_","U","s","e","r","I","n">>)
MediumRule == RuleNamed(<<"V","R","_","P","r","o","f","i","l","e">>)
LowRule == RuleNamed(<<"V","R","_","P","e","r","m">>)
PlainRule == RuleNamed(<<"V","R","_","B","l","a","n","k">>)
BypassingRules == {HighRule, MediumRule, LowRule}
HighTrigger == TriggerNamed(<<"U","s","e","r","T","r","i","g","g","e","r">>)
MediumTrigger == TriggerNamed(<<"L","o","a","n","T","r","i","g","g","e","r">>)
LowTrigger == TriggerNamed(<<"A","c","c","o","u","n","t","T","r","i","g","g","e","r">>)
PlainTriggerRecord == TriggerNamed(<<"P","l","a","i","n","T","r","i","g","g","e","r">>)
BypassingTriggers == {HighTrigger, MediumTrigger, LowTrigger}

\* larger metadata sets: copies of a bypassing record followed by copies of a
\* record without bypass logic
BulkArrays ==
  {Array(Copies(rec, a) \o Copies(PlainRule, b)) :
     rec \in BypassingRules, a \in CopyCounts, b \in CopyCounts}
  \cup
  {Array(Copies(rec, a) \o Copies(PlainTriggerRecord, b)) :
     rec \in BypassingTriggers, a \in CopyCounts, b \in CopyCounts}

Inputs == NonArrays \cup Arrays \cup BulkArrays

NoCall == [call |-> "none"]

---------------------------------------------------------------------------
(* The state machine: a caller holds a value and invokes the analyzers on  *)
(* it, any number of times and in any order, and may ask for the           *)
(* refactoring priorities of a bypass analysis; result is the outcome of   *)
(* the latest call.                                                        *)

Init ==
  /\ input \in Inputs
  /\ result = NoCall

AnalyzeFieldsCall ==
  /\ result' = analyzeFields(input)
  /\ UNCHANGED input

AnalyzeValidationRulesCall ==
  /\ result' = analyzeValidationRules(input)
  /\ UNCHANGED input

AnalyzeApexTriggersCall ==
  /\ result' = analyzeApexTriggers(input)
  /\ UNCHANGED input

\* generateRefactoringPriorities called on the results object an analysis of
\* validation rules or triggers returned: value is the returned list, results
\* the argument as the in-place sort leaves it
GenerateRefactoringPrioritiesCall ==
  /\ result.call \in {"analyzeValidationRules", "analyzeApexTriggers"}
  /\ ~result.threw
  /\ LET priorities == generateRefactoringPriorities(result.value)
     IN result' = [call |-> "generateRefactoringPriorities",
                   threw |-> FALSE,
                   value |-> priorities,
                   results |-> [result.value EXCEPT !.bypassPatterns = priorities],
                   analysis |-> result.call]
  /\ UNCHANGED input

Next ==
  \/ AnalyzeFieldsCall
  \/ AnalyzeValidationRulesCall
  \/ AnalyzeApexTriggersCall
  \/ GenerateRefactoringPrioritiesCall

Spec == Init /\ [][Next]_vars

---------------------------------------------------------------------------
(* The controller: performAnalyses runs on prepared input data and         *)
(* generateComprehensiveReport on the results it returned; result is the   *)
(* outcome of the latest call.                                             *)

\* what inputData holds for a domain that is no array: null (not supplied),
\* 0 (a falsy value parsed from an uploaded file) or an object
Null == [tag |-> "null"]
Zero == [tag |-> "number", num |-> 0]
Object == [tag |-> "object"]
NoArrays == {Null, Zero, Object}

FieldNamed(n) == CHOOSE rec \in FieldPool : "apiName" \in DOMAIN rec /\ rec.apiName = n

\* a field with low-severity violations only and one with critical violations
LowField == FieldNamed(<<"R","a","t","e","_","_","c">>)
CriticalField == FieldNamed(<<"L","o","a","n","_","A","m","o","u","n","t","_","_","X">>)

FieldsData ==
  NoArrays \cup {Array(<<CriticalField>>)}
  \cup {Array(Copies(LowField, a)) : a \in {0, 1, ManyCopies}}

RulesData ==
  NoArrays \cup {Array(<<PlainRule>>), Array(<<LowRule>>)}
  \cup {Array(Copies(rec, a)) :
          rec \in {HighRule, MediumRule}, a \in {0, MaxCopies - 1, MaxCopies}}

TriggersData ==
  {Null, Object, Array(<<HighTrigger>>), Array(Copies(MediumTrigger, MaxCopies - 1)),
   Array(Copies(LowTrigger, ManyCopies))}

InputData ==
  [fields : FieldsData, validationRules : RulesData, triggers : TriggersData]

CtlInit ==
  /\ input \in InputData
  /\ result = NoCall

PerformAnalysesCall ==
  /\ result' = Returned("performAnalyses", performAnalyses(input))
  /\ UNCHANGED input

\* the report of the results the latest performAnalyses returned; results
\* keeps the argument
GenerateComprehensiveReportCall ==
  /\ result.call = "performAnalyses"
  /\ result' = [call |-> "generateComprehensiveReport",
                threw |-> FALSE,
                value |-> generateComprehensiveReport(result.value),
                results |-> result.value]
  /\ UNCHANGED input

CtlNext ==
  \/ PerformAnalysesCall
  \/ GenerateComprehensiveReportCall

SpecCtl == CtlInit /\ [][CtlNext]_vars

---------------------------------------------------------------------------
(* A session: a caller keeps one array and one instance of each analyzer   *)
(* and invokes the analyzers on the array, any number of times (up to      *)
(* MaxCalls) and in any order.  input is the caller's array as it is now;  *)
(* result holds the array as it was handed over (given), the catalogs the  *)
(* two instances hold, and the outcomes of the calls so far (log).         *)

\* the calls of one session
MaxCalls == 2

\* the state the constructors leave in the two instances
NewNamingAnalyzer ==
  [conventionRules |-> conventionRules,
   loanObjectConventions |-> loanObjectConventions]

NewBypassAnalyzer ==
  [validationRulePatterns |-> validationRulePatterns,
   apexTriggerPatterns |-> apexTriggerPatterns]

\* records of the three kinds; every analyzer reads the properties it knows
\* and takes '' for the ones a record lacks
SessionPool ==
  {CriticalField, LowField, HighRule, RuleNamed(<<"V","R","_","P","e","r","m","U","s","e","r">>), LowTrigger}

SessionInputs ==
  {Null, Zero, Object} \cup {Array(items) : items \in SeqsUpTo(SessionPool, MaxLen)}

SessionInit ==
  /\ input \in SessionInputs
  /\ result = [given |-> input,
               namingAnalyzer |-> NewNamingAnalyzer,
               bypassAnalyzer |-> NewBypassAnalyzer,
               log |-> <<>>]

Reverse(s) == [k \in DOMAIN s |-> s[Len(s) + 1 - k]]

\* analyzeFields that takes the fields off the caller's array (fields.shift())
SessionAnalyzeFields_ConsumesInput ==
  /\ Len(result.log) < MaxCalls
  /\ result' = [result EXCEPT !.log = Append(@, analyzeFields(input))]
  /\ input' = IF isArray(input) THEN Array(<<>>) ELSE input

\* analyzeFields reads fields.length and the properties of each element, and
\* assigns to its own results object only
SessionAnalyzeFields ==
  /\ Len(result.log) < MaxCalls
  /\ result' = [result EXCEPT !.log = Append(@, analyzeFields(input))]
  /\ UNCHANGED input

\* analyzeValidationRules that reverses the caller's array in place
SessionAnalyzeValidationRules_ReversesInput ==
  /\ Len(result.log) < MaxCalls
  /\ result' = [result EXCEPT !.log = Append(@, analyzeValidationRules(input))]
  /\ input' = IF isArray(input) THEN Array(Reverse(input.items)) ELSE input

SessionAnalyzeValidationRules ==
  /\ Len(result.log) < MaxCalls
  /\ result' = [result EXCEPT !.log = Append(@, analyzeValidationRules(input))]
  /\ UNCHANGED input

SessionAnalyzeApexTriggers ==
  /\ Len(result.log) < MaxCalls
  /\ result' = [result EXCEPT !.log = Append(@, analyzeApexTriggers(input))]
  /\ UNCHANGED input

SessionNext ==
  \/ SessionAnalyzeFields
  \/ SessionAnalyzeValidationRules
  \/ SessionAnalyzeApexTriggers

SpecSession == SessionInit /\ [][SessionNext]_vars

---------------------------------------------------------------------------
(* ClaudeIntegration, the presenter, and the rest of AnalysisController.   *)
(* A formatted section is modelled as the sequence of its lines, a line as *)
(* a record of the values the template interpolates into it.               *)

\* what reading file.path.includes throws when the file object has no path
UndefinedIncludes == "Cannot read properties of undefined (reading 'includes')"

\* the key under which parseUserRequest files an uploaded file ("none" for
\* a file it ignores); a name without 'field' makes it read file.path
FileCategory(file) ==
  IF includes(file.name, <<"f","i","e","l","d">>) THEN "fields"
  ELSE IF ~Has(file, "path") THEN "TypeError"
  ELSE IF includes(file.path, <<"f","i","e","l","d">>) THEN "fields"
  ELSE IF includes(file.name, <<"v","a","l","i","d","a","t","i","o","n">>) \/ includes(file.path, <<"v","a","l","i","d","a","t","i","o","n">>)
  THEN "validationRules"
  ELSE IF includes(file.name, <<"t","r","i","g","g","e","r">>) \/ includes(file.path, <<"t","r","i","g","g","e","r">>)
  THEN "triggers"
  ELSE "none"

\* request.files.forEach: a later file of a category replaces an earlier one
RECURSIVE CategorizeFiles(_, _, _)
CategorizeFiles(uploadedFiles, files, k) ==
  IF k > Len(files) THEN uploadedFiles
  ELSE CategorizeFiles(
         IF FileCategory(files[k]) = "none" THEN uploadedFiles
         ELSE (FileCategory(files[k]) :> files[k]) @@ uploadedFiles,
         files, k + 1)

\* a boolean preference of the request, or the default true
AnalysisType(request, key) ==
  IF Has(request, "analysisTypes") /\ Has(request.analysisTypes, key)
  THEN request.analysisTypes[key]
  ELSE TRUE

parseUserRequest(request) ==
  IF Has(request, "files")
     /\ \E k \in DOMAIN request.files : FileCategory(request.files[k]) = "TypeError"
  THEN Thrown("parseUserRequest", UndefinedIncludes)
  ELSE Returned("parseUserRequest",
         [uploadedFiles |->
            IF Has(request, "files") THEN CategorizeFiles(EmptyObject, request.files, 1)
            ELSE EmptyObject,
          jsonData |-> IF Has(request, "jsonData") THEN request.jsonData ELSE EmptyObject,
          orgCredentials |->
            IF Has(request, "orgCredentials") THEN request.orgCredentials ELSE Null,
          analysisTypes |->
            [namingConventions |-> AnalysisType(request, "namingConventions"),
             validationRules |-> AnalysisType(request, "validationRules"),
             triggers |-> AnalysisType(request, "triggers")]])

\* processUploadedFile for a file whose content, if any, is a parsed value
\* (the branch that returns fileContent as it is) and that has no content
\* only if it has no path either
processUploadedFile(fileInfo) ==
  IF Has(fileInfo, "content") /\ ~Falsy(fileInfo.content)
  THEN Returned("processUploadedFile", fileInfo.content)
  ELSE Thrown("processUploadedFile", "No valid file content or path provided")

\* holder[key] if the key is there and its value is truthy, null otherwise
TruthyOrNull(holder, key) ==
  IF Has(holder, key) /\ ~Falsy(holder[key]) THEN holder[key] ELSE Null

\* the outcome of processing the uploaded file of a category, null without one
UploadOutcome(uploadedFiles, key) ==
  IF Has(uploadedFiles, key) THEN processUploadedFile(uploadedFiles[key])
  ELSE Returned("processUploadedFile", Null)

NoMetadataProvided ==
  "No metadata provided for analysis. Please provide fields, validation rules, or triggers."

\* the final check of prepareInputData
VerifiedInputData(inputData, extracted) ==
  IF Falsy(inputData.fields) /\ Falsy(inputData.validationRules) /\ Falsy(inputData.triggers)
  THEN [threw |-> TRUE, error |-> NoMetadataProvided, extracted |-> extracted]
  ELSE [threw |-> FALSE, value |-> inputData, extracted |-> extracted]

\* the three files are processed in turn; the first failure is thrown
PreparedFromFiles(fields, validationRules, triggers) ==
  IF fields.threw
  THEN [threw |-> TRUE, error |-> fields.error, extracted |-> FALSE]
  ELSE IF validationRules.threw
  THEN [threw |-> TRUE, error |-> validationRules.error, extracted |-> FALSE]
  ELSE IF triggers.threw
  THEN [threw |-> TRUE, error |-> triggers.error, extracted |-> FALSE]
  ELSE VerifiedInputData([fields |-> fields.value,
                          validationRules |-> validationRules.value,
                          triggers |-> triggers.value], FALSE)

\* prepareInputData(params); extraction is what
\* metadataExtractor.extractMetadata does if it is called, and extracted
\* tells whether it was called
prepareInputData(params, extraction) ==
  IF Has(params, "uploadedFiles")
  THEN PreparedFromFiles(UploadOutcome(params.uploadedFiles, "fields"),
                         UploadOutcome(params.uploadedFiles, "validationRules"),
                         UploadOutcome(params.uploadedFiles, "triggers"))
  ELSE IF Has(params, "orgCredentials") /\ ~Falsy(params.orgCredentials)
  THEN IF extraction.threw
       THEN [threw |-> TRUE, error |-> extraction.error, extracted |-> TRUE]
       ELSE VerifiedInputData(extraction.value, TRUE)
  ELSE IF Has(params, "jsonData")
  THEN VerifiedInputData([fields |-> TruthyOrNull(params.jsonData, "fields"),
                          validationRules |-> TruthyOrNull(params.jsonData, "validationRules"),
                          triggers |-> TruthyOrNull(params.jsonData, "triggers")], FALSE)
  ELSE VerifiedInputData([fields |-> Null, validationRules |-> Null, triggers |-> Null],
                         FALSE)

\* steps 2 to 4 of runAnalysis on the prepared input data; an error of
\* step 1 is thrown on
AnalysisOf(prepared) ==
  IF prepared.threw
  THEN [call |-> "runAnalysis", threw |-> TRUE, error |-> prepared.error,
        extracted |-> prepared.extracted]
  ELSE [call |-> "runAnalysis", threw |-> FALSE,
        value |-> generateComprehensiveReport(performAnalyses(prepared.value)),
        extracted |-> prepared.extracted]

runAnalysis(params, extraction) == AnalysisOf(prepareInputData(params, extraction))

formatExecutiveSummary(summary) ==
  <<[line |-> "heading", text |-> "Executive Summary"],
    [line |-> "assessment", text |-> summary.overallAssessment],
    [line |-> "heading", text |-> "Key Findings"]>>
  \o [k \in DOMAIN summary.keyFindings |->
        [line |-> "finding", chars |-> summary.keyFindings[k]]]
  \o <<[line |-> "heading", text |-> "Risk Breakdown"],
       [line |-> "risk", text |-> "Critical Issues", count |-> summary.risksIdentified.critical],
       [line |-> "risk", text |-> "Medium Issues", count |-> summary.risksIdentified.medium],
       [line |-> "risk", text |-> "Low Issues", count |-> summary.risksIdentified.low]>>

\* a component score is listed if it is truthy: neither 0 nor NaN
ComponentLine(scores, key, label) ==
  IF scores[key].nan \/ scores[key].val = 0 THEN <<>>
  ELSE <<[line |-> "component", text |-> label, score |-> scores[key]]>>

formatOverallScore(score) ==
  <<[line |-> "score", score |-> score.score, rating |-> score.rating]>>
  \o (IF Has(score, "componentScores")
      THEN <<[line |-> "heading", text |-> "Component Scores"]>>
           \o ComponentLine(score.componentScores, "namingConventions", "Naming Conventions")
           \o ComponentLine(score.componentScores, "validationRules", "Validation Rules")
           \o ComponentLine(score.componentScores, "triggers", "Apex Triggers")
      ELSE <<>>)

\* the entries a display list shows
DisplayLimit == 10

\* the table of a display list: a header, a row for each of the first 10
\* entries and, if there are more, the note "...and N more <others>"
DisplayTable(heading, entries, others) ==
  IF Len(entries) = 0 THEN <<>>
  ELSE <<[line |-> "heading", text |-> heading], [line |-> "tableHeader"]>>
       \o [k \in 1..Min(DisplayLimit, Len(entries)) |->
             [line |-> "row", entry |-> entries[k]]]
       \o (IF Len(entries) > DisplayLimit
           THEN <<[line |-> "more", count |-> Len(entries) - DisplayLimit,
                   text |-> others]>>
           ELSE <<>>)

\* a numbered list of identifiers
NumberedList(heading, ids) ==
  IF Len(ids) = 0 THEN <<>>
  ELSE <<[line |-> "heading", text |-> heading]>>
       \o [k \in DOMAIN ids |-> [line |-> "item", index |-> k, id |-> ids[k]]]

FormatNamingFindings(naming) ==
  <<[line |-> "compliance", text |-> "Naming Convention Compliance",
     percentage |-> naming.compliancePercentage]>>
  \o DisplayTable("Field Naming Issues", naming.violations, "fields with issues")
  \o (IF Len(naming.topIssues) = 0 THEN <<>>
      ELSE <<[line |-> "heading", text |-> "Top Naming Convention Issues"]>>
           \o [k \in DOMAIN naming.topIssues |->
                 [line |-> "issue", rule |-> naming.topIssues[k].rule,
                  count |-> naming.topIssues[k].count]])

FormatBypassFindings(findings, texts) ==
  <<[line |-> "securityScore", text |-> texts.score, score |-> findings.securityScore],
    [line |-> "bypassShare", text |-> texts.share,
     percentage |-> findings.bypassPercentage]>>
  \o DisplayTable(texts.table, findings.patterns, texts.others)
  \o NumberedList(texts.list, findings.refactoringPriorities)

ValidationRuleTexts ==
  [score |-> "Validation Rule Security Score",
   share |-> "of validation rules contain bypass patterns.",
   table |-> "Validation Rules with Bypass Patterns",
   others |-> "validation rules with issues",
   list |-> "Validation Rules to Refactor (Priority Order)"]

TriggerTexts ==
  [score |-> "Apex Trigger Security Score",
   share |-> "of Apex triggers contain bypass patterns.",
   table |-> "Triggers with Bypass Patterns",
   others |-> "triggers with issues",
   list |-> "Triggers to Refactor (Priority Order)"]

formatDetailedFindings(findings) ==
  <<[line |-> "heading", text |-> "Detailed Findings"]>>
  \o (IF Has(findings, "namingConventions")
      THEN FormatNamingFindings(findings.namingConventions) ELSE <<>>)
  \o (IF Has(findings, "validationRules")
      THEN FormatBypassFindings(findings.validationRules, ValidationRuleTexts)
      ELSE <<>>)
  \o (IF Has(findings, "triggers")
      THEN FormatBypassFindings(findings.triggers, TriggerTexts)
      ELSE <<>>)

\* a label and a value of the score chart for a truthy component score
ChartPoint(scores, key, label) ==
  IF scores[key].nan \/ scores[key].val = 0 THEN <<>>
  ELSE <<[label |-> label, value |-> scores[key]]>>

prepareScoreChartData(results) ==
  IF Has(results.overallScore, "componentScores")
  THEN ChartPoint(results.overallScore.componentScores, "namingConventions",
                  "Naming Conventions")
       \o ChartPoint(results.overallScore.componentScores, "validationRules",
                     "Validation Rules")
       \o ChartPoint(results.overallScore.componentScores, "triggers", "Apex Triggers")
       \o <<[label |-> "Overall", value |-> results.overallScore.score]>>
  ELSE <<>>

prepareIssueBreakdownData(results) ==
  [labels |-> <<"Critical", "Medium", "Low">>,
   data |-> <<results.executiveSummary.risksIdentified.critical,
              results.executiveSummary.risksIdentified.medium,
              results.executiveSummary.risksIdentified.low>>]

\* the pattern names of all entries of a patterns list, in order
RECURSIVE PatternsShown(_, _)
PatternsShown(items, k) ==
  IF k > Len(items) THEN <<>>
  ELSE items[k].patterns \o PatternsShown(items, k + 1)

\* the pattern names of the validation rules, then those of the triggers
AllPatternsShown(findings) ==
  (IF Has(findings, "validationRules")
   THEN PatternsShown(findings.validationRules.patterns, 1) ELSE <<>>)
  \o (IF Has(findings, "triggers")
      THEN PatternsShown(findings.triggers.patterns, 1) ELSE <<>>)

\* Object.entries(patternCounts): a count for every pattern name, in the
\* order in which the names were first counted
CountedPatterns(names) ==
  LET labels == Distinct(names)
  IN [k \in DOMAIN labels |-> [label |-> labels[k], value |-> Occurrences(names, labels[k])]]

prepareBypassPatternData(results) ==
  CountedPatterns(AllPatternsShown(results.detailedFindings))

formatResultsForClaude(results) ==
  [executiveSummary |-> formatExecutiveSummary(results.executiveSummary),
   overallScore |-> formatOverallScore(results.overallScore),
   detailedFindings |-> formatDetailedFindings(results.detailedFindings),
   recommendations |-> results.recommendations,
   visualizationData |->
     [scoreChart |-> prepareScoreChartData(results),
      issueBreakdown |-> prepareIssueBreakdownData(results),
      bypassPatternDistribution |-> prepareBypassPatternData(results)]]

\* what processRequest returns from its catch block
ErrorResponse(message) ==
  [error |-> TRUE,
   message |-> "There was an error processing your request: " \o message,
   suggestions |->
     <<"Make sure you've uploaded valid Salesforce metadata files",
       "Check that your org credentials are correct if you provided them",
       "Try analyzing one component at a time (e.g., just fields or just validation rules)">>]

\* the response for the outcome of runAnalysis
ResponseFor(analysis) ==
  [call |-> "processRequest", threw |-> FALSE,
   value |-> IF analysis.threw THEN ErrorResponse(analysis.error)
             ELSE formatResultsForClaude(analysis.value),
   extracted |-> analysis.extracted]

\* the response for the outcome of parseUserRequest
ResponseAfterParsing(parsed, extraction) ==
  IF parsed.threw
  THEN [call |-> "processRequest", threw |-> FALSE,
        value |-> ErrorResponse(parsed.error), extracted |-> FALSE]
  ELSE ResponseFor(runAnalysis(parsed.value, extraction))

processRequest(request, extraction) ==
  ResponseAfterParsing(parseUserRequest(request), extraction)
---------------------------------------------------------------------------
(* Requests to the presenter.  A caller holds a request; processRequest is *)
(* the presenter's entry point, and the same object can be handed to the   *)
(* controller's runAnalysis as its params (it has no uploadedFiles then).  *)

\* metadata of each domain: a short set and one with more entries than a
\* display list shows, the validation rules not in their priority order
ReqFields == {Array(<<CriticalField>>), Array(Copies(LowField, ManyCopies))}
ReqRules ==
  {Array(<<LowRule, HighRule>>), Array(<<LowRule>> \o Copies(HighRule, ManyCopies))}
ReqTriggers == {Array(<<HighTrigger>>), Array(Copies(LowTrigger, ManyCopies))}

\* objects with any of the keys fields, validationRules and triggers
Metadata ==
  {f @@ r @@ t :
     f \in {EmptyObject} \cup {[fields |-> v] : v \in ReqFields},
     r \in {EmptyObject} \cup {[validationRules |-> v] : v \in ReqRules},
     t \in {EmptyObject} \cup {[triggers |-> v] : v \in ReqTriggers}}

\* the metadata as uploaded files with parsed content
FilesOf(data) ==
  (IF Has(data, "fields")
   THEN <<[name |-> <<"l","o","a","n","_","f","i","e","l","d","s",".","j","s","o","n">>, content |-> data.fields]>> ELSE <<>>)
  \o (IF Has(data, "validationRules")
      THEN <<[name |-> <<"v","a","l","i","d","a","t","i","o","n","_","r","u","l","e","s",".","j","s","o","n">>,
              path |-> <<"u","p","l","o","a","d","s","/","v","a","l","i","d","a","t","i","o","n","_","r","u","l","e","s",".","j","s","o","n">>,
              content |-> data.validationRules]>>
      ELSE <<>>)
  \o (IF Has(data, "triggers")
      THEN <<[name |-> <<"l","o","a","n","_","t","r","i","g","g","e","r","s",".","j","s","o","n">>,
              path |-> <<"u","p","l","o","a","d","s","/","l","o","a","n","_","t","r","i","g","g","e","r","s",".","j","s","o","n">>,
              content |-> data.triggers]>>
      ELSE <<>>)

Credentials ==
  [tag |-> "object", username |-> "your-username@example.com", password |-> "your-password"]

\* requests without analysis type preferences: raw JSON data, uploaded
\* files (one without a path, one without content), credentials, nothing
PlainRequests ==
  {[jsonData |-> data] : data \in Metadata}
  \cup {[files |-> FilesOf(data)] : data \in Metadata}
  \cup {[files |-> <<[name |-> <<"v","a","l","i","d","a","t","i","o","n","_","r","u","l","e","s",".","j","s","o","n">>,
                      content |-> Array(<<LowRule, HighRule>>)]>>],
        [files |-> <<[name |-> <<"l","o","a","n","_","f","i","e","l","d","s",".","j","s","o","n">>]>>],
        [orgCredentials |-> Credentials],
        EmptyObject}

AnalysisTypePreferences ==
  {EmptyObject,
   [analysisTypes |-> [triggers |-> FALSE]],
   [analysisTypes |-> [namingConventions |-> FALSE, validationRules |-> FALSE]]}

Requests == {request @@ types : request \in PlainRequests, types \in AnalysisTypePreferences}

\* what extractMetadata can do with the credentials: fail to authenticate,
\* or return the metadata of the org
Extractions ==
  {Thrown("extractMetadata", "Salesforce authentication failed: Command failed"),
   Returned("extractMetadata",
     [fields |-> Array(<<CriticalField>>),
      validationRules |-> Array(<<HighRule>>),
      triggers |-> Array(<<>>)])}

ReqInit ==
  /\ input \in Requests
  /\ result = NoCall

ProcessRequestCall ==
  /\ \E extraction \in Extractions : result' = processRequest(input, extraction)
  /\ UNCHANGED input

RunAnalysisCall ==
  /\ \E extraction \in Extractions : result' = runAnalysis(input, extraction)
  /\ UNCHANGED input

ReqNext ==
  \/ ProcessRequestCall
  \/ RunAnalysisCall

SpecReq == ReqInit /\ [][ReqNext]_vars

---------------------------------------------------------------------------
(* The protocol server: its analysis tools and its report tool.  The       *)
(* server's generateExecutiveSummary, generateRecommendations and          *)
(* calculateOverallScore are copies, statement by statement, of the        *)
(* controller's methods, and are modelled by the same operators.           *)

\* what a tool returns from its catch block
ToolFailure(error, failed) ==
  [success |-> FALSE, error |-> error, message |-> failed \o error]

NamingToolResult(results, count) ==
  [success |-> TRUE,
   results |-> results,
   summary |-> generateSummaryReport(results),
   message |-> <<"A","n","a","l","y","z","e","d"," ">> \o DigitsOf(count) \o <<" ","f","i","e","l","d","s","."," ","C","o","m","p","l","i","a","n","c","e",":"," ">>
               \o NumberToString(results.compliancePercentage) \o <<"%">>]

\* the handler of salesforce.analyzeNamingConventions, called with fields
AnalyzeNamingConventionsTool(fields) ==
  IF Falsy(fields) \/ ~isArray(fields)
  THEN ToolFailure("No valid fields provided for analysis",
                   "Failed to analyze naming conventions: ")
  ELSE NamingToolResult(analyzeFields(fields).value, Len(fields.items))

\* results is the analysis after generateRefactoringPriorities has sorted
\* its bypassPatterns in place; the priorities are that same array
BypassToolResult(results, type, count, components) ==
  [success |-> TRUE,
   results |-> results,
   refactoringPriorities |-> results.bypassPatterns,
   recommendations |-> generateGeneralRecommendations(results, type),
   message |-> <<"A","n","a","l","y","z","e","d"," ">> \o DigitsOf(count) \o components
               \o NumberToString(results.securityScore) \o <<"/","1","0","0">>]

\* the handler of salesforce.analyzeValidationRules
AnalyzeValidationRulesTool(validationRules) ==
  IF Falsy(validationRules) \/ ~isArray(validationRules)
  THEN ToolFailure("No valid validation rules provided for analysis",
                   "Failed to analyze validation rules: ")
  ELSE BypassToolResult(WithSortedFindings(analyzeValidationRules(validationRules).value),
                        "validation", Len(validationRules.items),
                        <<" ","v","a","l","i","d","a","t","i","o","n"," ","r","u","l","e","s","."," ","S","e","c","u","r","i","t","y"," ","s","c","o","r","e",":"," ">>)

\* the handler of salesforce.analyzeApexTriggers
AnalyzeApexTriggersTool(triggers) ==
  IF Falsy(triggers) \/ ~isArray(triggers)
  THEN ToolFailure("No valid triggers provided for analysis",
                   "Failed to analyze triggers: ")
  ELSE BypassToolResult(WithSortedFindings(analyzeApexTriggers(triggers).value),
                        "trigger", Len(triggers.items),
                        <<" ","t","r","i","g","g","e","r","s","."," ","S","e","c","u","r","i","t","y"," ","s","c","o","r","e",":"," ">>)

\* the analyses object the report tool builds from the tool results it is
\* given; a property read from a failed tool result is undefined
AnalysesOf(held) ==
  (IF Has(held, "namingResults") /\ Has(held.namingResults, "results")
   THEN [namingConventions |-> held.namingResults.results,
         namingConventionsSummary |-> held.namingResults.summary]
   ELSE EmptyObject)
  @@
  (IF Has(held, "validationResults") /\ Has(held.validationResults, "results")
   THEN [validationRules |-> held.validationResults.results,
         validationRulesRefactoringPriorities |->
           held.validationResults.refactoringPriorities,
         validationRulesRecommendations |-> held.validationResults.recommendations]
   ELSE EmptyObject)
  @@
  (IF Has(held, "triggerResults") /\ Has(held.triggerResults, "results")
   THEN [triggers |-> held.triggerResults.results,
         triggersRefactoringPriorities |-> held.triggerResults.refactoringPriorities,
         triggersRecommendations |-> held.triggerResults.recommendations]
   ELSE EmptyObject)

\* the detailedFindings of the server's generateComprehensiveReport
ServerDetailedFindings(analyses) ==
  (IF Has(analyses, "namingConventions")
   THEN [namingConventions |->
           [compliancePercentage |-> analyses.namingConventions.compliancePercentage,
            violations |->
              [k \in DOMAIN analyses.namingConventions.violations |->
                 LET v == analyses.namingConventions.violations[k]
                 IN [field |-> v.apiName,
                     issues |-> [j \in DOMAIN v.violations |-> v.violations[j].rule],
                     recommendation |-> v.recommendedFix]],
            topIssues |-> analyses.namingConventionsSummary.topIssues]]
   ELSE EmptyObject)
  @@
  (IF Has(analyses, "validationRules")
   THEN [validationRules |->
           [securityScore |-> analyses.validationRules.securityScore,
            bypassPercentage |-> analyses.validationRules.bypassPercentage,
            patterns |->
              [k \in DOMAIN analyses.validationRules.bypassPatterns |->
                 LET p == analyses.validationRules.bypassPatterns[k]
                 IN [rule |-> p.apiName,
                     patterns |-> [j \in DOMAIN p.patterns |-> p.patterns[j].name],
                     severity |-> p.highestSeverity]],
            refactoringPriorities |->
              Take(analyses.validationRulesRefactoringPriorities, 5)]]
   ELSE EmptyObject)
  @@
  (IF Has(analyses, "triggers")
   THEN [triggers |->
           [securityScore |-> analyses.triggers.securityScore,
            bypassPercentage |-> analyses.triggers.bypassPercentage,
            patterns |->
              [k \in DOMAIN analyses.triggers.bypassPatterns |->
                 LET p == analyses.triggers.bypassPatterns[k]
                 IN [trigger |-> p.name,
                     patterns |-> [j \in DOMAIN p.patterns |-> p.patterns[j].name],
                     severity |-> p.highestSeverity]],
            refactoringPriorities |-> Take(analyses.triggersRefactoringPriorities, 5)]]
   ELSE EmptyObject)

\* the server's generateComprehensiveReport
ServerGenerateComprehensiveReport(analyses) ==
  [executiveSummary |-> generateExecutiveSummary(analyses),
   detailedFindings |-> ServerDetailedFindings(analyses),
   recommendations |-> generateRecommendations(analyses),
   overallScore |-> calculateOverallScore(analyses)]

\* the handler of salesforce.generateReport
GenerateReportTool(held) ==
  [success |-> TRUE,
   report |-> ServerGenerateComprehensiveReport(AnalysesOf(held)),
   message |-> "Successfully generated comprehensive report"]

---------------------------------------------------------------------------
(* A client of the server holds metadata, calls the analysis tools on it   *)
(* in any order and hands the tool results it holds to the report tool.    *)
(* result is the latest tool call, its value and the tool results held.    *)

ServerFields == {Null, Array(<<CriticalField>>)}

\* no rules; half, a third, two thirds and all of the rules with bypass
\* logic; no array
ServerRules ==
  {Array(<<>>), Array(<<HighRule, PlainRule>>), Array(<<LowRule, PlainRule, PlainRule>>),
   Array(<<LowRule, HighRule, PlainRule>>), Array(<<MediumRule>>), Object}

ServerTriggers ==
  {Array(<<>>), Array(<<HighTrigger>>), Array(<<LowTrigger, PlainTriggerRecord>>)}

ServerData ==
  [fields : ServerFields, validationRules : ServerRules, triggers : ServerTriggers]

ServerInit ==
  /\ input \in ServerData
  /\ result = [call |-> "none", held |-> EmptyObject]

AnalyzeNamingConventionsToolCall ==
  /\ result' = [call |-> "salesforce.analyzeNamingConventions",
                value |-> AnalyzeNamingConventionsTool(input.fields),
                held |-> [namingResults |-> AnalyzeNamingConventionsTool(input.fields)]
                         @@ result.held]
  /\ UNCHANGED input

AnalyzeValidationRulesToolCall ==
  /\ result' = [call |-> "salesforce.analyzeValidationRules",
                value |-> AnalyzeValidationRulesTool(input.validationRules),
                held |-> [validationResults |->
                            AnalyzeValidationRulesTool(input.validationRules)]
                         @@ result.held]
  /\ UNCHANGED input

AnalyzeApexTriggersToolCall ==
  /\ result' = [call |-> "salesforce.analyzeApexTriggers",
                value |-> AnalyzeApexTriggersTool(input.triggers),
                held |-> [triggerResults |-> AnalyzeApexTriggersTool(input.triggers)]
                         @@ result.held]
  /\ UNCHANGED input

GenerateReportToolCall ==
  /\ result' = [call |-> "salesforce.generateReport",
                value |-> GenerateReportTool(result.held),
                held |-> result.held]
  /\ UNCHANGED input

ServerNext ==
  \/ AnalyzeNamingConventionsToolCall
  \/ AnalyzeValidationRulesToolCall
  \/ AnalyzeApexTriggersToolCall
  \/ GenerateReportToolCall

SpecServer == ServerInit /\ [][ServerNext]_vars

---------------------------------------------------------------------------
(* Properties *)

FieldsReturned == result.call = "analyzeFields" /\ ~result.threw
RulesReturned == result.call = "analyzeValidationRules" /\ ~result.threw
TriggersReturned == result.call = "analyzeApexTriggers" /\ ~result.threw

\* the latest call was a call of one of the three analyzers
AnalyzerCalled ==
  result.call \in {"analyzeFields", "analyzeValidationRules", "analyzeApexTriggers"}

\* the name analyzeFields reads off a record
ApiNameOf(rec) == StrProp2(rec, "apiName", "fullName")
\* the formula analyzeValidationRules reads off a record
FormulaOf(rec) == StrProp2(rec, "errorConditionFormula", "formula")

\* the violation records that analyzeFields returned for the name n
RecordsOf(n) ==
  {k \in DOMAIN result.value.violations : result.value.violations[k].apiName = n}
\* the input fields named n
FieldsNamed(n) == {k \in DOMAIN input.items : ApiNameOf(input.items[k]) = n}

\* the rule descriptions of the entries of one violation record
RulesOf(rec) == {rec.violations[k].rule : k \in DOMAIN rec.violations}

InRange(n, lo, hi) == NumLeq(Num(lo), n) /\ NumLeq(n, Num(hi))

\* C1: the result of analyzeFields satisfies compliantFieldCount +
\* violations.length = totalFieldCount, and totalFieldCount is the length of
\* the input array.
C1_CountsAddUp ==
  FieldsReturned =>
    /\ result.value.totalFieldCount = Len(input.items)
    /\ result.value.compliantFieldCount + Len(result.value.violations)
         = result.value.totalFieldCount

\* C1 witness: analyzeFields returned for an array of two fields
C1_Witness ==
  /\ FieldsReturned
  /\ Len(input.items) = 2
  /\ Len(result.value.violations) = 2

\* C2: for every array, the empty one included, securityScore of
\* analyzeValidationRules and analyzeApexTriggers and compliancePercentage of
\* analyzeFields are numbers between 0 and 100.
C2_ScoresInRange ==
  /\ FieldsReturned => InRange(result.value.compliancePercentage, 0, 100)
  /\ RulesReturned => InRange(result.value.securityScore, 0, 100)
  /\ TriggersReturned => InRange(result.value.securityScore, 0, 100)

\* C3: given the empty array, analyzeFields does not throw and returns
\* compliancePercentage 0; whenever the record count is 0, every percentage
\* and score of an analyzer is a defined number, not NaN.
C3_EmptyArrayGuard ==
  (isArray(input) /\ input.items = <<>> /\ AnalyzerCalled) =>
    /\ ~result.threw
    /\ result.call = "analyzeFields" =>
         result.value.compliancePercentage = Num(0)
    /\ result.call \in {"analyzeValidationRules", "analyzeApexTriggers"} =>
         /\ ~result.value.bypassPercentage.nan
         /\ ~result.value.securityScore.nan

\* C4: an analyzer given a value that is not an array fails with an error and
\* returns no result; given the empty array it succeeds with an empty
\* violations / bypassPatterns list.
C4_NonArrayThrows ==
  AnalyzerCalled =>
    IF isArray(input)
    THEN /\ ~result.threw
         /\ input.items = <<>> =>
              IF result.call = "analyzeFields"
              THEN result.value.violations = <<>>
              ELSE result.value.bypassPatterns = <<>>
    ELSE /\ result.threw
         /\ "value" \notin DOMAIN result

\* C4 witness: an analyzer was called with a string (truthy, not an array)
\* and threw
C4_Witness ==
  /\ input.tag = "string"
  /\ input.str # <<>>
  /\ result.call = "analyzeFields"
  /\ result.threw

UserEqFormula == <<"$","U","s","e","r",".","I","d"," ","=","="," ","'","0","0","5","0","0","0","0","0","0","0","0","0","0","0","1","'">>

\* C5: a validation rule with the formula $User.Id == '005000000000001' is
\* reported with the pattern "User ID bypass", severity High, and its id is
\* listed in rulesBySeverity.High.
C5_UserIdEqDetected ==
  RulesReturned =>
    \A k \in DOMAIN input.items :
      FormulaOf(input.items[k]) = UserEqFormula =>
        /\ \E f \in DOMAIN result.value.bypassPatterns :
             /\ result.value.bypassPatterns[f].apiName = ApiNameOf(input.items[k])
             /\ result.value.bypassPatterns[f].highestSeverity = "High"
             /\ \E p \in DOMAIN result.value.bypassPatterns[f].patterns :
                  /\ result.value.bypassPatterns[f].patterns[p].name = "User ID bypass"
                  /\ result.value.bypassPatterns[f].patterns[p].severity = "High"
        /\ ApiNameOf(input.items[k]) \in Range(result.value.rulesBySeverity.High)

\* no pattern of the validation-rule catalog matches the formula of rec
MatchesNoRulePattern(rec) ==
  \A p \in DOMAIN validationRulePatterns :
    ~test(validationRulePatterns[p].regex, FormulaOf(rec))

\* C6: for a non-empty array of validation rules none of which matches a
\* bypass pattern, bypassPercentage = 0, securityScore = 100,
\* rulesWithBypass = 0 and bypassPatterns is empty.
C6_NoBypassPerfectScore ==
  ( /\ RulesReturned
    /\ input.items # <<>>
    /\ \A k \in DOMAIN input.items : MatchesNoRulePattern(input.items[k]) ) =>
    /\ result.value.bypassPercentage = Num(0)
    /\ result.value.securityScore = Num(100)
    /\ result.value.rulesWithBypass = 0
    /\ result.value.bypassPatterns = <<>>

\* C6 witness: analyzeValidationRules returned for two validation rules
\* whose formulas are not empty and match no pattern
C6_Witness ==
  /\ RulesReturned
  /\ Len(input.items) = 2
  /\ \A k \in DOMAIN input.items :
       /\ FormulaOf(input.items[k]) # <<>>
       /\ MatchesNoRulePattern(input.items[k])
  /\ result.value.securityScore = Num(100)

HasRecognizedPrefix(n) == startsWith(n, <<"L","L","C","_","B","I","_","_">>) \/ startsWith(n, <<"n","c","_">>)

\* C7: a field whose apiName starts with LLC_BI__ or nc_ and that raises no
\* Loan-specific violation produces no violation record and is counted in
\* compliantFieldCount.
C7_PrefixIsCompliant ==
  FieldsReturned =>
    /\ \A k \in DOMAIN input.items :
         LET n == ApiNameOf(input.items[k])
         IN (HasRecognizedPrefix(n) /\ LoanViolations(n) = <<>>) => RecordsOf(n) = {}
    /\ result.value.compliantFieldCount >=
         Cardinality({k \in DOMAIN input.items :
            LET n == ApiNameOf(input.items[k])
            IN HasRecognizedPrefix(n) /\ LoanViolations(n) = <<>>})

LoanSpecificRules == {LoanPatternRule, InvalidPatternRule}
MissingPrefixRules == {conventionRules[1].description, conventionRules[2].description}

\* the violation entry analyzeFields pushes for convention rule number r
ConventionEntry(r) ==
  [rule |-> conventionRules[r].description,
   pattern |-> conventionRules[r].source,
   expected |-> conventionRules[r].expected]

\* C8 as stated: a field with no recognized prefix whose apiName does not
\* contain "Loan" has exactly one violation, the missing-prefix violation, and
\* no Loan-specific violation.
C8_Original ==
  FieldsReturned =>
    \A k \in DOMAIN input.items :
      LET n == ApiNameOf(input.items[k])
      IN (~HasRecognizedPrefix(n) /\ ~includes(n, <<"L","o","a","n">>)) =>
           \A r \in RecordsOf(n) :
             LET rec == result.value.violations[r]
             IN /\ Len(rec.violations) = 1
                /\ rec.violations[1].rule \in MissingPrefixRules
                /\ RulesOf(rec) \cap LoanSpecificRules = {}

\* C8 amended: a field with no recognized prefix whose apiName contains
\* neither "Loan" nor "loan" has exactly one violation record; its violations
\* are the two missing-prefix violations (the LLC_BI__ rule, then the nc_
\* rule), followed by the lowercase-start violation when the name begins with
\* a lowercase letter, and no Loan-specific violation.
C8_OneRecordPrefixEntries ==
  FieldsReturned =>
    \A k \in DOMAIN input.items :
      LET n == ApiNameOf(input.items[k])
      IN (~HasRecognizedPrefix(n) /\ ~includes(n, <<"L","o","a","n">>) /\ ~includes(n, <<"l","o","a","n">>)) =>
           /\ Cardinality(RecordsOf(n)) = Cardinality(FieldsNamed(n))
           /\ \A r \in RecordsOf(n) :
                result.value.violations[r].violations =
                  <<ConventionEntry(1), ConventionEntry(2)>>
                  \o (IF Len(n) > 0 /\ n[1] \in Range(LowerLetters)
                      THEN <<ConventionEntry(3)>> ELSE <<>>)

\* C8 witness: analyzeFields returned for an array holding customField__c
C8_Witness ==
  /\ FieldsReturned
  /\ \E k \in DOMAIN input.items : ApiNameOf(input.items[k]) = <<"c","u","s","t","o","m","F","i","e","l","d","_","_","c">>
  /\ RecordsOf(<<"c","u","s","t","o","m","F","i","e","l","d","_","_","c">>) # {}

\* C9: the field loan_status gets a critical violation for the invalid
\* pattern, is placed in bySeverity.critical, and its recommendedFix is the
\* recommendation to rename it to nc_Loan_status.
C9_LoanStatusFix ==
  FieldsReturned =>
    \A k \in DOMAIN input.items :
      ApiNameOf(input.items[k]) = <<"l","o","a","n","_","s","t","a","t","u","s">> =>
        /\ RecordsOf(<<"l","o","a","n","_","s","t","a","t","u","s">>) # {}
        /\ \A r \in RecordsOf(<<"l","o","a","n","_","s","t","a","t","u","s">>) :
             LET rec == result.value.violations[r]
             IN /\ [rule |-> InvalidPatternRule, severity |-> "critical"]
                     \in Range(rec.violations)
                /\ rec \in Range(result.value.bySeverity.critical)
                /\ rec.recommendedFix = <<"C","h","a","n","g","e"," ","t","o"," ","'","n","c","_","L","o","a","n","_","s","t","a","t","u","s","'">>

\* C10: the field nc_Loan_Score__c gets no Loan-specific violation (it matches
\* a custom Loan pattern) and no violation of the nc_ prefix rule.
C10_CustomLoanName ==
  FieldsReturned =>
    \A r \in RecordsOf(<<"n","c","_","L","o","a","n","_","S","c","o","r","e","_","_","c">>) :
      LET rec == result.value.violations[r]
      IN /\ RulesOf(rec) \cap LoanSpecificRules = {}
         /\ conventionRules[2].description \notin RulesOf(rec)

\* C10 witness: analyzeFields returned for an array holding nc_Loan_Score__c,
\* which matches a custom Loan pattern
C10_Witness ==
  /\ FieldsReturned
  /\ \E k \in DOMAIN input.items : ApiNameOf(input.items[k]) = <<"n","c","_","L","o","a","n","_","S","c","o","r","e","_","_","c">>
  /\ SomeTest(loanObjectConventions.customPatterns, <<"n","c","_","L","o","a","n","_","S","c","o","r","e","_","_","c">>)

\* the name contains "Loan" or "loan", the two spellings analyzeFields looks for
MentionsLoan(n) == includes(n, <<"L","o","a","n">>) \/ includes(n, <<"l","o","a","n">>)

\* the severity bucket the claimed priority order assigns to a violation record
ClaimedSeverity(rec) ==
  IF \E v \in DOMAIN rec.violations :
       "severity" \in DOMAIN rec.violations[v] /\ rec.violations[v].severity = "critical"
  THEN "critical"
  ELSE IF \E v \in DOMAIN rec.violations :
            \/ includes(rec.violations[v].rule, <<"L","o","a","n">>)
            \/ includes(rec.violations[v].rule, <<"s","t","a","n","d","a","r","d"," ","p","a","t","t","e","r","n","s">>)
  THEN "critical"
  ELSE IF conventionRules[2].description \in RulesOf(rec)
  THEN "medium"
  ELSE "low"

C19_LoanChecksIndependent ==
  FieldsReturned =>
    \A r \in DOMAIN result.value.violations :
      LET rec == result.value.violations[r]
          n == rec.apiName
      IN /\ (LoanPatternRule \in RulesOf(rec)) <=>
              ( /\ MentionsLoan(n)
                /\ ~SomeTest(loanObjectConventions.standardPatterns, n)
                /\ ~SomeTest(loanObjectConventions.customPatterns, n)
                /\ includes(n, <<"L","o","a","n">>) )
         /\ (InvalidPatternRule \in RulesOf(rec)) <=>
              ( /\ MentionsLoan(n)
                /\ SomeTest(loanObjectConventions.invalidPatterns, n) )

\* C19 witness: analyzeFields returned a record with both Loan-specific
\* entries (Loan_Amount__X) and a record with the second entry only, the
\* first test having failed (loan_status)
C19_Witness ==
  /\ FieldsReturned
  /\ \E r \in RecordsOf(<<"L","o","a","n","_","A","m","o","u","n","t","_","_","X">>) :
       RulesOf(result.value.violations[r]) \cap LoanSpecificRules = LoanSpecificRules
  /\ \E r \in RecordsOf(<<"l","o","a","n","_","s","t","a","t","u","s">>) :
       RulesOf(result.value.violations[r]) \cap LoanSpecificRules = {InvalidPatternRule}

\* C20: the Loan-specific rules are applied to a field exactly when its
\* apiName contains "loan" compared case-insensitively: such a name that
\* matches an invalid pattern gets the invalid-pattern entry, and a name
\* without it gets no Loan-specific entry.
C20_LoanCaseInsensitive ==
  FieldsReturned =>
    \A r \in DOMAIN result.value.violations :
      LET rec == result.value.violations[r]
          n == rec.apiName
          containsLoan == includes(toLowerCase(n), <<"l","o","a","n">>)
      IN /\ (containsLoan /\ SomeTest(loanObjectConventions.invalidPatterns, n))
              => InvalidPatternRule \in RulesOf(rec)
         /\ ~containsLoan => RulesOf(rec) \cap LoanSpecificRules = {}

SeverityRank(severity) ==
  IF severity = "High" THEN 3 ELSE IF severity = "Medium" THEN 2 ELSE 1

\* the severities of the catalog entries whose regex matches the text
MatchedSeverities(patterns, text) ==
  {patterns[p].severity : p \in {q \in DOMAIN patterns : test(patterns[q].regex, text)}}

\* the greatest of a non-empty set of severities under High > Medium > Low
MaxSeverity(severities) ==
  CHOOSE s \in severities : \A u \in severities : SeverityRank(u) <= SeverityRank(s)

\* the source text analyzeApexTriggers scans
CodeOf(rec) == StrProp2(rec, "content", "code")

\* the input records that match at least one rule of the catalog, in input order
RuleHits == 
  LET matchesSome(rec) == MatchedSeverities(validationRulePatterns, FormulaOf(rec)) # {}
  IN SelectSeq(input.items, matchesSome)

TriggerHits ==
  LET matchesSome(rec) == MatchedSeverities(apexTriggerPatterns, CodeOf(rec)) # {}
  IN SelectSeq(input.items, matchesSome)

\* the ids of the hits whose greatest matched severity is the given one
RuleIdsOfSeverity(severity) ==
  LET isOf(rec) ==
        MaxSeverity(MatchedSeverities(validationRulePatterns, FormulaOf(rec))) = severity
      hits == SelectSeq(RuleHits, isOf)
  IN [k \in DOMAIN hits |-> ApiNameOf(hits[k])]

TriggerIdsOfSeverity(severity) ==
  LET isOf(rec) ==
        MaxSeverity(MatchedSeverities(apexTriggerPatterns, CodeOf(rec))) = severity
      hits == SelectSeq(TriggerHits, isOf)
  IN [k \in DOMAIN hits |-> StrProp(hits[k], "name")]

\* C13: the bypass findings are exactly the records that match at least one
\* detection rule, in input order; a finding's highestSeverity is the greatest
\* severity among its matched rules (High > Medium > Low); each severity bucket
\* lists exactly the ids of the findings with that highestSeverity; the bypass
\* counter is the number of findings.
C13_FindingsAndBuckets ==
  /\ RulesReturned =>
       /\ Len(result.value.bypassPatterns) = Len(RuleHits)
       /\ \A k \in DOMAIN RuleHits :
            /\ result.value.bypassPatterns[k].apiName = ApiNameOf(RuleHits[k])
            /\ result.value.bypassPatterns[k].highestSeverity =
                 MaxSeverity(MatchedSeverities(validationRulePatterns, FormulaOf(RuleHits[k])))
       /\ \A severity \in {"High", "Medium", "Low"} :
            result.value.rulesBySeverity[severity] = RuleIdsOfSeverity(severity)
       /\ result.value.rulesWithBypass = Len(RuleHits)
  /\ TriggersReturned =>
       /\ Len(result.value.bypassPatterns) = Len(TriggerHits)
       /\ \A k \in DOMAIN TriggerHits :
            /\ result.value.bypassPatterns[k].name = StrProp(TriggerHits[k], "name")
            /\ result.value.bypassPatterns[k].highestSeverity =
                 MaxSeverity(MatchedSeverities(apexTriggerPatterns, CodeOf(TriggerHits[k])))
       /\ \A severity \in {"High", "Medium", "Low"} :
            result.value.triggersBySeverity[severity] = TriggerIdsOfSeverity(severity)
       /\ result.value.triggersWithBypass = Len(TriggerHits)

\* C13 witness: analyzeValidationRules returned for a rule that matches no
\* detection rule and a rule that matches a Low and a High one; only the second
\* is reported, with highestSeverity High, in the High bucket, counted once
C13_Witness ==
  /\ RulesReturned
  /\ Len(input.items) = 2
  /\ MatchedSeverities(validationRulePatterns, FormulaOf(input.items[1])) = {}
  /\ MatchedSeverities(validationRulePatterns, FormulaOf(input.items[2])) = {"Low", "High"}
  /\ Len(result.value.bypassPatterns) = 1
  /\ result.value.bypassPatterns[1].highestSeverity = "High"
  /\ result.value.rulesBySeverity.High = <<ApiNameOf(input.items[2])>>
  /\ result.value.rulesWithBypass = 1

PrioritiesReturned == result.call = "generateRefactoringPriorities"

\* the findings of the analysis the priorities were asked for, as found
FindingsBeforeSort ==
  IF result.analysis = "analyzeValidationRules"
  THEN analyzeValidationRules(input).value.bypassPatterns
  ELSE analyzeApexTriggers(input).value.bypassPatterns

IsPermutation(s, t) ==
  /\ Len(s) = Len(t)
  /\ \A x \in Range(s) \cup Range(t) : Occurrences(s, x) = Occurrences(t, x)

\* C11: the list generateRefactoringPriorities returns is a permutation of the
\* bypass findings; no entry is preceded by an entry of lower severity (High
\* before Medium before Low); entries of equal severity are in ascending order
\* of their identifier (apiName or name).
C11_PrioritiesSorted ==
  PrioritiesReturned =>
    /\ IsPermutation(result.value, FindingsBeforeSort)
    /\ \A i, j \in DOMAIN result.value :
         i < j =>
           /\ SeverityRank(result.value[i].highestSeverity)
                >= SeverityRank(result.value[j].highestSeverity)
           /\ result.value[i].highestSeverity = result.value[j].highestSeverity
                => localeCompare(IdentifierOf(result.value[i]),
                                 IdentifierOf(result.value[j])) <= 0

\* C11 witness: priorities were returned for two findings that the analysis
\* had found in the opposite order
C11_Witness ==
  /\ PrioritiesReturned
  /\ Len(FindingsBeforeSort) = 2
  /\ result.value = <<FindingsBeforeSort[2], FindingsBeforeSort[1]>>
  /\ result.value[1] # result.value[2]

BypassReturned == RulesReturned \/ TriggersReturned

\* totals, bypass counter and High and Medium bucket sizes of a bypass result
TotalOf(value) ==
  IF "totalRules" \in DOMAIN value THEN value.totalRules ELSE value.totalTriggers
WithBypassOf(value) ==
  IF "rulesWithBypass" \in DOMAIN value THEN value.rulesWithBypass
  ELSE value.triggersWithBypass
BucketsOf(value) ==
  IF "rulesBySeverity" \in DOMAIN value THEN value.rulesBySeverity
  ELSE value.triggersBySeverity

Clamp(n) == Max(0, Min(100, n))

\* C12 as stated: for a non-empty input securityScore is
\* round(100 - 0.3 * bypassPercentage - 5 * High - 2 * Medium) clamped to
\* [0, 100], bypassPercentage being the rounded value reported in the result.
\* In tenths: round(x / 10) = floor((2 x + 10) / 20).
C12_Original ==
  (BypassReturned /\ input.items # <<>>) =>
    LET value == result.value
        tenths == 1000 - 3 * value.bypassPercentage.val
                  - 50 * Len(BucketsOf(value).High) - 20 * Len(BucketsOf(value).Medium)
    IN value.securityScore = Num(Clamp((2 * tenths + 10) \div 20))

\* C12 amended: for a non-empty input securityScore is
\* round(100 - 30 * withBypass / total - 5 * High - 2 * Medium) clamped to
\* [0, 100], the quotient withBypass / total being used unrounded; Low-bucketed
\* records carry no per-record penalty.  Over the denominator total:
\* round(n / t) = floor((2 n + t) / (2 t)).
C12_ScoreFromUnroundedShare ==
  (BypassReturned /\ input.items # <<>>) =>
    LET value == result.value
        t == TotalOf(value)
        n == 100 * t - 30 * WithBypassOf(value)
             - 5 * Len(BucketsOf(value).High) * t - 2 * Len(BucketsOf(value).Medium) * t
    IN /\ value.bypassPercentage = Num((200 * WithBypassOf(value) + t) \div (2 * t))
       /\ value.securityScore = Num(Clamp((2 * n + t) \div (2 * t)))

\* C12 witness: MaxCopies - 1 of 2 MaxCopies - 1 validation rules bypass (5 of
\* 11: the share 45.45..% is reported as 45) and the score was computed
C12_Witness ==
  /\ RulesReturned
  /\ result.value.totalRules = 2 * MaxCopies - 1
  /\ result.value.rulesWithBypass = MaxCopies - 1
  /\ ~result.value.securityScore.nan

Performed == result.call = "performAnalyses"
Reported == result.call = "generateComprehensiveReport"

Domains == {"namingConventions", "validationRules", "triggers"}

\* the score a domain contributes to the overall score, and twice its weight
DomainScore(results, d) ==
  IF d = "namingConventions" THEN results[d].compliancePercentage
  ELSE results[d].securityScore
DoubleWeight(d) == IF d = "namingConventions" THEN 2 ELSE 3

\* the sum of f over a finite set
RECURSIVE SumOver(_, _)
SumOver(S, f) ==
  IF S = {} THEN 0
  ELSE LET x == CHOOSE y \in S : TRUE IN f[x] + SumOver(S \ {x}, f)

\* the rating of an integer score
Band(v) ==
  IF v >= 90 THEN "Excellent" ELSE IF v >= 75 THEN "Good"
  ELSE IF v >= 60 THEN "Fair" ELSE IF v >= 40 THEN "Poor" ELSE "Critical"

\* C15: the overall score is the weighted average of the scores of the domains
\* present (weights 1, 1.5, 1.5) rounded to the nearest integer, half up: with
\* s the doubled weighted sum and w the doubled weight, the score v satisfies
\* v - 1/2 <= s / w < v + 1/2; the rating follows the bands 90/75/60/40; a
\* NaN score of a domain makes the average NaN, for which no band holds
\* (rating Critical); with no domain present the score is 0 and the rating N/A.
C15_OverallScore ==
  Reported =>
    LET results == result.results
        overall == result.value.overallScore
        present == Domains \cap DOMAIN results
        w == SumOver(present, [d \in present |-> DoubleWeight(d)])
        s == SumOver(present, [d \in present |->
                                 DoubleWeight(d) * DomainScore(results, d).val])
    IN IF present = {}
       THEN overall.score = Num(0) /\ overall.rating = "N/A"
       ELSE IF \E d \in present : DomainScore(results, d).nan
       THEN overall.score.nan /\ overall.rating = "Critical"
       ELSE /\ ~overall.score.nan
            /\ 2 * w * overall.score.val <= 2 * s + w
            /\ 2 * s + w < 2 * w * (overall.score.val + 1)
            /\ overall.rating = Band(overall.score.val)

\* C15 witness: a report on three domains with three different scores whose
\* weighted average is no integer
C15_Witness ==
  /\ Reported
  /\ Domains \subseteq DOMAIN result.results
  /\ \A d \in Domains : ~DomainScore(result.results, d).nan
  /\ Cardinality({DomainScore(result.results, d).val : d \in Domains}) = 3
  /\ (2 * DomainScore(result.results, "namingConventions").val
      + 3 * DomainScore(result.results, "validationRules").val
      + 3 * DomainScore(result.results, "triggers").val) % 8 # 0

\* the size of a severity bucket of a domain, 0 when the domain has no result
BucketSize(results, d, level) ==
  IF d \notin DOMAIN results THEN 0
  ELSE IF d = "namingConventions"
  THEN Len(results[d].bySeverity[IF level = 1 THEN "critical"
                                 ELSE IF level = 2 THEN "medium" ELSE "low"])
  ELSE LET severity == IF level = 1 THEN "High" ELSE IF level = 2 THEN "Medium" ELSE "Low"
       IN IF d = "validationRules" THEN Len(results[d].rulesBySeverity[severity])
          ELSE Len(results[d].triggersBySeverity[severity])

IssuesOfLevel(results, level) ==
  BucketSize(results, "namingConventions", level)
  + BucketSize(results, "validationRules", level)
  + BucketSize(results, "triggers", level)

\* C16: risksIdentified holds the bucket sizes summed over the domains
\* present; the assessment is the critical-attention message if critical > 5
\* or critical is more than 20% of all issues (never so when there are no
\* issues), else the moderate-risk message if critical > 0 or medium > 10,
\* else the low-risk message.
C16_OverallAssessment ==
  Reported =>
    LET summary == result.value.executiveSummary
        critical == IssuesOfLevel(result.results, 1)
        medium == IssuesOfLevel(result.results, 2)
        low == IssuesOfLevel(result.results, 3)
        total == critical + medium + low
    IN /\ summary.risksIdentified = [critical |-> critical, medium |-> medium, low |-> low]
       /\ summary.overallAssessment =
            IF critical > 5 \/ (total > 0 /\ 5 * critical > total) THEN CriticalAttention
            ELSE IF critical > 0 \/ medium > 10 THEN ModerateRisk
            ELSE LowRisk

\* C16 witness: a report with one to five critical issues that are at most
\* 20% of all issues: moderate risk, on account of critical > 0 alone
C16_Witness ==
  /\ Reported
  /\ result.value.executiveSummary.risksIdentified.critical \in 1..5
  /\ result.value.executiveSummary.risksIdentified.medium = 0
  /\ 5 * result.value.executiveSummary.risksIdentified.critical
       <= IssuesOfLevel(result.results, 1) + IssuesOfLevel(result.results, 3)
  /\ result.value.executiveSummary.overallAssessment = ModerateRisk

\* the first position of s that holds x
FirstIndex(s, x) == CHOOSE k \in DOMAIN s : s[k] = x /\ \A j \in 1..(k - 1) : s[j] # x

\* the recommendations of the domains present, in the order naming,
\* validation rules, triggers, followed by the governance recommendations
AllRecommendations(results) ==
  (IF "namingConventionsSummary" \in DOMAIN results
   THEN results.namingConventionsSummary.recommendations ELSE <<>>)
  \o (IF "validationRulesRecommendations" \in DOMAIN results
      THEN results.validationRulesRecommendations ELSE <<>>)
  \o (IF "triggersRecommendations" \in DOMAIN results
      THEN results.triggersRecommendations ELSE <<>>)
  \o GovernanceRecommendations

\* C17: the report's recommendations hold every string of the concatenated
\* domain and governance recommendations, each exactly once, ordered by first
\* occurrence in the concatenation.
C17_RecommendationsDistinct ==
  Reported =>
    LET recs == result.value.recommendations
        all == AllRecommendations(result.results)
    IN /\ Range(recs) = Range(all)
       /\ \A i, j \in DOMAIN recs :
            i < j => /\ recs[i] # recs[j]
                     /\ FirstIndex(all, recs[i]) < FirstIndex(all, recs[j])
       /\ Len(GovernanceRecommendations) = 3
       /\ SubSeq(recs, Len(recs) - 2, Len(recs)) = GovernanceRecommendations

\* C17 witness: a report on validation rules and triggers, whose
\* recommendations share three strings
C17_Witness ==
  /\ Reported
  /\ "validationRulesRecommendations" \in DOMAIN result.results
  /\ "triggersRecommendations" \in DOMAIN result.results
  /\ Len(result.value.recommendations) + 3 = Len(AllRecommendations(result.results))

InputKey(d) == IF d = "namingConventions" THEN "fields" ELSE d

ErrorKey(d) ==
  IF d = "namingConventions" THEN "namingConventionsError"
  ELSE IF d = "validationRules" THEN "validationRulesError"
  ELSE "triggersError"

\* the keys under which a successful analysis of a domain stores its results
ResultKeys(d) ==
  IF d = "namingConventions" THEN {"namingConventions", "namingConventionsSummary"}
  ELSE IF d = "validationRules"
  THEN {"validationRules", "validationRulesRefactoringPriorities",
        "validationRulesRecommendations"}
  ELSE {"triggers", "triggersRefactoringPriorities", "triggersRecommendations"}

\* the results without the entries of a domain
WithoutDomain(results, d) ==
  [k \in (DOMAIN results) \ (ResultKeys(d) \cup {ErrorKey(d)}) |-> results[k]]

\* what performAnalyses returns with inputData[key] replaced
ResultsWith(key, v) == performAnalyses([input EXCEPT ![key] = v])

\* C18 as stated: a domain given a value that is not an array (and not null,
\* which means not supplied) gets its error entry and no result entry; the
\* other entries are those of the run without that domain; the results differ
\* from those of a run with no findings in that domain.
C18_Original ==
  Performed =>
    \A d \in Domains :
      (~isArray(input[InputKey(d)]) /\ input[InputKey(d)] # Null) =>
        /\ ErrorKey(d) \in DOMAIN result.value
        /\ ResultKeys(d) \cap DOMAIN result.value = {}
        /\ WithoutDomain(result.value, d) = ResultsWith(InputKey(d), Null)
        /\ result.value # ResultsWith(InputKey(d), Array(<<>>))

\* C18 amended: a domain given a truthy value that is not an array gets its
\* error entry and no result entry; a domain given a falsy value gets no entry
\* at all, as if it had not been supplied; in both cases the other entries are
\* those of the run without that domain and the results differ from those of
\* a run with no findings in that domain.
C18_DomainsIndependent ==
  Performed =>
    \A d \in Domains :
      ~isArray(input[InputKey(d)]) =>
        /\ (ErrorKey(d) \in DOMAIN result.value) <=> ~Falsy(input[InputKey(d)])
        /\ ResultKeys(d) \cap DOMAIN result.value = {}
        /\ WithoutDomain(result.value, d) = ResultsWith(InputKey(d), Null)
        /\ result.value # ResultsWith(InputKey(d), Array(<<>>))

\* C18 witness: performAnalyses ran with an object for the validation rules
\* and arrays with findings for the fields and the triggers
C18_Witness ==
  /\ Performed
  /\ input.validationRules = Object
  /\ "validationRulesError" \in DOMAIN result.value
  /\ "namingConventions" \in DOMAIN result.value
  /\ result.value.namingConventions.violations # <<>>
  /\ "triggers" \in DOMAIN result.value
  /\ result.value.triggers.bypassPatterns # <<>>

---------------------------------------------------------------------------
(* Sessions *)

InSession == "log" \in DOMAIN result

\* the positions of the session's log that hold outcomes of the given call
CallsOf(call) == {k \in DOMAIN result.log : result.log[k].call = call}

FreshOutcome(call, v) ==
  CASE call = "analyzeFields" -> analyzeFields(v)
    [] call = "analyzeValidationRules" -> analyzeValidationRules(v)
    [] call = "analyzeApexTriggers" -> analyzeApexTriggers(v)

---------------------------------------------------------------------------
(* Requests *)

Presented == result.call = "processRequest"

\* the presenter answered with its error object
ErrorPresented == Presented /\ Has(result.value, "error")

\* the request supplies raw JSON metadata and no files
SuppliesJsonOnly ==
  /\ Has(input, "jsonData")
  /\ \E key \in {"fields", "validationRules", "triggers"} : Has(input.jsonData, key)
  /\ ~Has(input, "files")
  /\ ~Has(input, "orgCredentials")

\* the request supplies credentials and nothing else to analyze
SuppliesCredentialsOnly ==
  /\ Has(input, "orgCredentials")
  /\ ~Has(input, "files")
  /\ ~Has(input, "jsonData")

\* C24: a request that supplies raw JSON metadata (jsonData with fields,
\* validationRules or triggers) and no uploaded files is analyzed:
\* processRequest returns a formatted report, not the "No metadata provided"
\* error; and a request that supplies only orgCredentials reaches the
\* metadata extraction
C24_JsonDataAndCredentialsUsed ==
  Presented =>
    /\ SuppliesJsonOnly =>
         /\ ~Has(result.value, "error")
         /\ Has(result.value, "detailedFindings")
    /\ SuppliesCredentialsOnly => result.extracted

\* C25: when a request sets analysisTypes.triggers (namingConventions,
\* validationRules) to false, that analysis is skipped: the formatted report
\* has no line of that domain, neither among the detailed findings nor among
\* the component scores, even if data for the domain was supplied
DomainTexts(key) ==
  CASE key = "namingConventions" ->
         {"Naming Convention Compliance", "Field Naming Issues",
          "Top Naming Convention Issues", "Naming Conventions"}
    [] key = "validationRules" ->
         {ValidationRuleTexts[k] : k \in DOMAIN ValidationRuleTexts} \cup {"Validation Rules"}
    [] key = "triggers" ->
         {TriggerTexts[k] : k \in DOMAIN TriggerTexts} \cup {"Apex Triggers"}

Mentions(lines, texts) ==
  \E k \in DOMAIN lines : Has(lines[k], "text") /\ lines[k].text \in texts

C25_DisabledAnalysisSkipped ==
  (Presented /\ ~ErrorPresented) =>
    \A key \in {"namingConventions", "validationRules", "triggers"} :
      ~AnalysisType(input, key) =>
        /\ ~Mentions(result.value.detailedFindings, DomainTexts(key))
        /\ ~Mentions(result.value.overallScore, DomainTexts(key))

\* the array the request's uploaded files supply for a domain
Supplied(key) == parseUserRequest(input).value.uploadedFiles[key].content

SuppliedDomains ==
  {key \in {"fields", "validationRules", "triggers"} :
     Has(parseUserRequest(input).value.uploadedFiles, key)}

\* the identifiers of the records with findings, in the order in which the
\* records appear in the supplied array
FindingIds(key) ==
  CASE key = "fields" ->
         [k \in DOMAIN analyzeFields(Supplied(key)).value.violations |->
            analyzeFields(Supplied(key)).value.violations[k].apiName]
    [] key = "validationRules" ->
         [k \in DOMAIN analyzeValidationRules(Supplied(key)).value.bypassPatterns |->
            analyzeValidationRules(Supplied(key)).value.bypassPatterns[k].apiName]
    [] key = "triggers" ->
         [k \in DOMAIN analyzeApexTriggers(Supplied(key)).value.bypassPatterns |->
            analyzeApexTriggers(Supplied(key)).value.bypassPatterns[k].name]

\* the identifiers of the findings in priority order
PriorityIds(key) ==
  CASE key = "validationRules" ->
         [k \in DOMAIN analyzeValidationRules(Supplied(key)).value.bypassPatterns |->
            generateRefactoringPriorities(
              analyzeValidationRules(Supplied(key)).value)[k].apiName]
    [] key = "triggers" ->
         [k \in DOMAIN analyzeApexTriggers(Supplied(key)).value.bypassPatterns |->
            generateRefactoringPriorities(
              analyzeApexTriggers(Supplied(key)).value)[k].name]

\* the key of a row's entry that holds the identifier, the text of the
\* continuation note and the heading of the priority list of a domain
RowKey(key) ==
  CASE key = "fields" -> "field"
    [] key = "validationRules" -> "rule"
    [] key = "triggers" -> "trigger"

OthersText(key) ==
  CASE key = "fields" -> "fields with issues"
    [] key = "validationRules" -> ValidationRuleTexts.others
    [] key = "triggers" -> TriggerTexts.others

ListHeading(key) ==
  CASE key = "fields" -> "none"
    [] key = "validationRules" -> ValidationRuleTexts.list
    [] key = "triggers" -> TriggerTexts.list

\* the identifiers in the rows of a domain's display list
RowIds(lines, rowKey) ==
  LET ofDomain(l) == l.line = "row" /\ Has(l.entry, rowKey)
      rows == SelectSeq(lines, ofDomain)
  IN [k \in DOMAIN rows |-> rows[k].entry[rowKey]]

\* the counts given by the continuation notes of a domain
MoreNotes(lines, others) ==
  {lines[k].count : k \in {j \in DOMAIN lines : lines[j].line = "more" /\ lines[j].text = others}}

\* the identifiers listed under a heading
ListItems(lines, heading) ==
  LET at == {k \in DOMAIN lines : lines[k].line = "heading" /\ lines[k].text = heading}
      listed == {k \in DOMAIN lines :
                   \E h \in at : h < k /\ \A j \in (h + 1)..k : lines[j].line = "item"}
  IN [j \in 1..Cardinality(listed) |-> lines[(CHOOSE h \in at : TRUE) + j].id]

\* the display list and the priority list of a domain show these findings
Displays(lines, key, findings, priorities) ==
  /\ RowIds(lines, RowKey(key)) = Take(findings, 10)
  /\ MoreNotes(lines, OthersText(key))
       = IF Len(findings) > 10 THEN {Len(findings) - 10} ELSE {}
  /\ ListItems(lines, ListHeading(key)) = Take(priorities, 5)

\* C23: in the report produced by the controller and rendered by the
\* presenter, each domain's display list shows the first 10 entries in the
\* original input order of the records, followed by a continuation note with
\* the number of remaining entries exactly when there are more than 10, and
\* each refactoring-priority list holds the first 5 entries (at most) of the
\* priority ordering
C23_DisplayLists ==
  (Presented /\ ~ErrorPresented) =>
    \A key \in SuppliedDomains :
      Displays(result.value.detailedFindings, key, FindingIds(key),
               IF key = "fields" THEN <<>> ELSE PriorityIds(key))

---------------------------------------------------------------------------
(* The server's tools *)

\* the latest call was an analysis tool for validation rules (triggers) and
\* it succeeded
RulesToolSucceeded ==
  result.call = "salesforce.analyzeValidationRules" /\ result.value.success
TriggersToolSucceeded ==
  result.call = "salesforce.analyzeApexTriggers" /\ result.value.success

GenericBypassRecommendations ==
  <<"Implement a consistent approach to bypass logic across all components",
    "Use custom permissions instead of profiles or user IDs for bypass logic",
    "Document all bypass mechanisms in a central location for security review">>

ReviewStrategy ==
  "Review overall validation strategy to reduce reliance on bypass patterns"

TriggerFramework ==
  "Implement a centralized trigger handler framework with consistent bypass logic"

\* C26: generateGeneralRecommendations always returns the three generic
\* governance recommendations first; it appends the refactor-immediately
\* recommendation exactly when the High severity bucket is non-empty; for
\* the validation kind it appends the review-overall-strategy recommendation
\* exactly when bypassPercentage > 50, and never for the trigger kind; for
\* the trigger kind it always appends the centralized trigger handler
\* framework recommendation
C26_GeneralRecommendations ==
  /\ RulesToolSucceeded =>
       /\ Take(result.value.recommendations, 3) = GenericBypassRecommendations
       /\ ("Immediately refactor validation rules with hardcoded User IDs"
             \in Range(result.value.recommendations))
            <=> (result.value.results.rulesBySeverity.High # <<>>)
       /\ (ReviewStrategy \in Range(result.value.recommendations))
            <=> (/\ ~result.value.results.bypassPercentage.nan
                 /\ result.value.results.bypassPercentage.val > 50)
       /\ TriggerFramework \notin Range(result.value.recommendations)
       /\ Len(result.value.recommendations)
            = 3 + Cardinality(Range(result.value.recommendations)
                                \ Range(GenericBypassRecommendations))
  /\ TriggersToolSucceeded =>
       /\ Take(result.value.recommendations, 3) = GenericBypassRecommendations
       /\ ("Immediately refactor triggers with hardcoded User IDs or Profile checks"
             \in Range(result.value.recommendations))
            <=> (result.value.results.triggersBySeverity.High # <<>>)
       /\ ReviewStrategy \notin Range(result.value.recommendations)
       /\ result.value.recommendations[Len(result.value.recommendations)]
            = TriggerFramework
       /\ Len(result.value.recommendations)
            = 3 + Cardinality(Range(result.value.recommendations)
                                \ Range(GenericBypassRecommendations))

\* the validation rules tool ran on rules of which exactly half have bypass
\* logic, one of them of High severity: the refactoring recommendation is
\* there, the strategy review is not
C26_Witness ==
  /\ RulesToolSucceeded
  /\ result.value.results.bypassPercentage = Num(50)
  /\ result.value.results.rulesBySeverity.High # <<>>
  /\ Len(result.value.recommendations) = 4

\* an object without one of its properties
Without(object, key) == [k \in DOMAIN object \ {key} |-> object[k]]

\* strict equality of two values of the given kinds
SameEntry(kind, value, otherKind, other) == kind = otherKind /\ value = other

\* the refactoringPriorities of the server's report are the findings
\* themselves (objects), those of the controller's report are names
\* (strings): two entries are equal when they are of one kind and equal
SamePriorities(findings, names) ==
  /\ Len(findings) = Len(names)
  /\ \A k \in DOMAIN findings :
       SameEntry("object", findings[k], "string", names[k])

\* the findings of one domain are the same in the two reports
SameFindings(ofServer, ofController, key) ==
  /\ Has(ofServer, key) <=> Has(ofController, key)
  /\ Has(ofServer, key) =>
       /\ Without(ofServer[key], "refactoringPriorities")
            = Without(ofController[key], "refactoringPriorities")
       /\ Has(ofServer[key], "refactoringPriorities")
            => SamePriorities(ofServer[key].refactoringPriorities,
                              ofController[key].refactoringPriorities)

---------------------------------------------------------------------------
(* The shape of the analysis results *)

\* how many of the findings have the given id and the given severity
FindingsOf(findings, idKey, id, severity) ==
  Cardinality({k \in DOMAIN findings :
                 findings[k][idKey] = id /\ findings[k].highestSeverity = severity})

\* every bucket holds an id once for each finding of that id and of the
\* bucket's severity, and nothing else
BucketsPartition(findings, idKey, buckets) ==
  \A severity \in {"High", "Medium", "Low"} :
    \A id \in {findings[k][idKey] : k \in DOMAIN findings} \cup Range(buckets[severity]) :
      Occurrences(buckets[severity], id) = FindingsOf(findings, idKey, id, severity)

\* C27: in every analysis result the severity buckets partition the
\* findings: for validation rules and triggers, |High| + |Medium| + |Low| ==
\* rulesWithBypass (triggersWithBypass) == bypassPatterns.length and every
\* finding's id occurs in exactly the bucket of its highestSeverity; for
\* fields, |critical| + |medium| + |low| == violations.length and each
\* violation record is in exactly one bucket
C27_BucketsPartitionFindings ==
  /\ RulesReturned =>
       /\ Len(result.value.rulesBySeverity.High) + Len(result.value.rulesBySeverity.Medium)
            + Len(result.value.rulesBySeverity.Low) = result.value.rulesWithBypass
       /\ result.value.rulesWithBypass = Len(result.value.bypassPatterns)
       /\ BucketsPartition(result.value.bypassPatterns, "apiName",
                           result.value.rulesBySeverity)
  /\ TriggersReturned =>
       /\ Len(result.value.triggersBySeverity.High)
            + Len(result.value.triggersBySeverity.Medium)
            + Len(result.value.triggersBySeverity.Low) = result.value.triggersWithBypass
       /\ result.value.triggersWithBypass = Len(result.value.bypassPatterns)
       /\ BucketsPartition(result.value.bypassPatterns, "name",
                           result.value.triggersBySeverity)
  /\ FieldsReturned =>
       /\ Len(result.value.bySeverity.critical) + Len(result.value.bySeverity.medium)
            + Len(result.value.bySeverity.low) = Len(result.value.violations)
       /\ \A v \in Range(result.value.violations) :
            /\ Cardinality({b \in {"critical", "medium", "low"} :
                              v \in Range(result.value.bySeverity[b])}) = 1
            /\ Occurrences(result.value.bySeverity.critical, v)
                 + Occurrences(result.value.bySeverity.medium, v)
                 + Occurrences(result.value.bySeverity.low, v)
                 = Occurrences(result.value.violations, v)

\* two triggers with findings of different severities: each name is in the
\* bucket of its finding and in no other
C27_Witness ==
  /\ TriggersReturned
  /\ Len(result.value.bypassPatterns) = 2
  /\ result.value.bypassPatterns[1].highestSeverity = "High"
  /\ result.value.bypassPatterns[2].highestSeverity = "Low"
  /\ result.value.triggersBySeverity.High = <<result.value.bypassPatterns[1].name>>
  /\ result.value.triggersBySeverity.Low = <<result.value.bypassPatterns[2].name>>
  /\ result.value.triggersBySeverity.Medium = <<>>

\* the ids listed under the names of a per-pattern mapping
ListedIds(byPattern) == UNION {Range(byPattern[n]) : n \in DOMAIN byPattern}

\* an id is listed under a rule name if and only if a finding of that id
\* names the rule
ListedWhereFound(findings, idKey, byPattern) ==
  \A n \in DOMAIN byPattern :
    \A id \in {findings[k][idKey] : k \in DOMAIN findings} \cup Range(byPattern[n]) :
      (id \in Range(byPattern[n]))
        <=> (\E k \in DOMAIN findings :
               /\ findings[k][idKey] = id
               /\ n \in PatternNames(findings[k].patterns))

\* C28: in the result of analyzeValidationRules (analyzeApexTriggers),
\* rulesByPattern (triggersByPattern) has one key for every rule name of the
\* catalog, also when no record matches it, and a record's id is listed under
\* a rule name if and only if that rule appears in the record's finding in
\* bypassPatterns; hence the union of all per-pattern lists equals the set of
\* ids in bypassPatterns
C28_ByPatternMatchesFindings ==
  /\ RulesReturned =>
       /\ DOMAIN result.value.rulesByPattern = PatternNames(validationRulePatterns)
       /\ ListedWhereFound(result.value.bypassPatterns, "apiName",
                           result.value.rulesByPattern)
       /\ ListedIds(result.value.rulesByPattern)
            = {result.value.bypassPatterns[k].apiName :
                 k \in DOMAIN result.value.bypassPatterns}
  /\ TriggersReturned =>
       /\ DOMAIN result.value.triggersByPattern = PatternNames(apexTriggerPatterns)
       /\ ListedWhereFound(result.value.bypassPatterns, "name",
                           result.value.triggersByPattern)
       /\ ListedIds(result.value.triggersByPattern)
            = {result.value.bypassPatterns[k].name :
                 k \in DOMAIN result.value.bypassPatterns}

\* a validation rule whose finding names two rules of the catalog is listed
\* under both, and a rule name no record matches has an empty list
C28_Witness ==
  /\ RulesReturned
  /\ \E k \in DOMAIN result.value.bypassPatterns :
       /\ Len(result.value.bypassPatterns[k].patterns) = 2
       /\ \A j \in 1..2 :
            result.value.bypassPatterns[k].apiName
              \in Range(result.value.rulesByPattern[result.value.bypassPatterns[k].patterns[j].name])
  /\ \E n \in DOMAIN result.value.rulesByPattern : result.value.rulesByPattern[n] = <<>>

\* C29: generateRefactoringPriorities does not modify the analysis result it
\* is given: after the call, result.bypassPatterns holds the same findings in
\* the same order as before the call (the order in which records appeared in
\* the input), and the returned priority list is a separate list
C29_PrioritiesLeaveResult ==
  PrioritiesReturned => result.results.bypassPatterns = FindingsBeforeSort

=============================================================================
